---- MODULE Spec2Model ----
(***************************************************************************)
(* Model of the dependency risk analysis engine (convex/analyze.ts):       *)
(* the analyzePackages action, its bounded-concurrency scheduler           *)
(* (processWithConcurrency), the OSV batch resolver with its static        *)
(* fallback table, the detector pipeline and the scorer.                   *)
(*                                                                         *)
(* Text that the code inspects character by character (package names,      *)
(* licenses) is a sequence of one-character strings; text that the code    *)
(* only formats or compares whole (versions, messages, keys) is a string.  *)
(* An optional value is <<>> (absent) or <<v>> (present).                  *)
(***************************************************************************)
EXTENDS Integers, Sequences, FiniteSets, TLC

(***************************************************************************)
(* Generic helpers                                                         *)
(***************************************************************************)
None == <<>>

Some(x) == <<x>>

IsSome(o) == o # <<>>

Min(a, b) == IF a <= b THEN a ELSE b

Range(s) == {s[i] : i \in 1..Len(s)}

\* The string spelled by a sequence of characters.
RECURSIVE Str(_)
Str(cs) == IF cs = <<>> THEN "" ELSE Head(cs) \o Str(Tail(cs))

\* Array.prototype.slice(from, from + count) with a 0-based `from`.
Slice(s, from, count) == SubSeq(s, from + 1, Min(Len(s), from + count))

\* String.prototype.substring(0, n).  The texts of the model are all at most
\* n characters long except LongSummary, whose 80-character prefix is given.
LongSummary == "Regular expression denial of service in the tokenizer of the template-string parser"

LongSummaryPrefix == "Regular expression denial of service in the tokenizer of the template-string par"

Substring0(s, n) == IF Len(s) <= n THEN s ELSE LongSummaryPrefix

LowerAlphabet == <<"a","b","c","d","e","f","g","h","i","j","k","l","m",
                   "n","o","p","q","r","s","t","u","v","w","x","y","z">>

UpperAlphabet == <<"A","B","C","D","E","F","G","H","I","J","K","L","M",
                   "N","O","P","Q","R","S","T","U","V","W","X","Y","Z">>

ToUpperChar(c) ==
    IF \E i \in 1..Len(LowerAlphabet) : LowerAlphabet[i] = c
    THEN UpperAlphabet[CHOOSE i \in 1..Len(LowerAlphabet) : LowerAlphabet[i] = c]
    ELSE c

ToLowerChar(c) ==
    IF \E i \in 1..Len(UpperAlphabet) : UpperAlphabet[i] = c
    THEN LowerAlphabet[CHOOSE i \in 1..Len(UpperAlphabet) : UpperAlphabet[i] = c]
    ELSE c

ToUpperCase(cs) == [i \in 1..Len(cs) |-> ToUpperChar(cs[i])]

ToLowerCase(cs) == [i \in 1..Len(cs) |-> ToLowerChar(cs[i])]

\* String.prototype.includes
Includes(cs, sub) ==
    \E i \in 1..(Len(cs) - Len(sub) + 1) : SubSeq(cs, i, i + Len(sub) - 1) = sub

EndsWith(cs, suffix) ==
    /\ Len(cs) >= Len(suffix)
    /\ SubSeq(cs, Len(cs) - Len(suffix) + 1, Len(cs)) = suffix

\* The decimal digits of a natural number, as characters.
RECURSIVE Digits(_)
Digits(n) == IF n < 10 THEN <<ToString(n)>>
             ELSE Append(Digits(n \div 10), ToString(n % 10))

(***************************************************************************)
(* The semver library, on the versions and ranges of the model             *)
(***************************************************************************)
SemverVersions ==
    ("1.0.0" :> <<1, 0, 0>>) @@ ("1.2.3" :> <<1, 2, 3>>) @@
    ("1.2.5" :> <<1, 2, 5>>) @@ ("1.2.8" :> <<1, 2, 8>>) @@
    ("1.3.0" :> <<1, 3, 0>>) @@ ("2.0.0" :> <<2, 0, 0>>) @@
    ("2.1.0-rc.1" :> <<2, 1, 0>>)

\* The versions of the model that carry a prerelease tag.  The one there is
\* is higher than every release of the model.
SemverPrereleases == {"2.1.0-rc.1"}

\* semver.valid: the version when it parses, absent otherwise.
SemverValid(v) == IF v \in DOMAIN SemverVersions THEN Some(v) ELSE None

SemverLt(a, b) ==
    \/ a[1] < b[1]
    \/ a[1] = b[1] /\ a[2] < b[2]
    \/ a[1] = b[1] /\ a[2] = b[2] /\ a[3] < b[3]

\* The ranges of the model: op is the comparator set, v its version.
SemverRanges ==
    ("<1.2.6" :> [op |-> "<", v |-> <<1, 2, 6>>]) @@
    ("<4.4.19" :> [op |-> "<", v |-> <<4, 4, 19>>]) @@
    ("<0.7.24" :> [op |-> "<", v |-> <<0, 7, 24>>]) @@
    ("<5.0.1" :> [op |-> "<", v |-> <<5, 0, 1>>]) @@
    ("<1.3.1" :> [op |-> "<", v |-> <<1, 3, 1>>]) @@
    ("^1.2.5" :> [op |-> "^", v |-> <<1, 2, 5>>]) @@
    ("~1.2.5" :> [op |-> "~", v |-> <<1, 2, 5>>]) @@
    ("~1.2.0" :> [op |-> "~", v |-> <<1, 2, 0>>])

\* semver.satisfies: false for a version or a range that does not parse, and
\* for a prerelease version against a range without prerelease comparators.
SemverSatisfies(version, range) ==
    /\ version \in DOMAIN SemverVersions
    /\ version \notin SemverPrereleases
    /\ range \in DOMAIN SemverRanges
    /\ LET v == SemverVersions[version]
           r == SemverRanges[range]
       IN  CASE r.op = "<" -> SemverLt(v, r.v)
             [] r.op = "^" -> ~SemverLt(v, r.v) /\ v[1] = r.v[1]
             [] r.op = "~" -> ~SemverLt(v, r.v) /\ v[1] = r.v[1] /\ v[2] = r.v[2]
             [] OTHER -> FALSE

\* semver.diff of two valid versions: the first differing component, with
\* the prefix "pre" when the higher version carries a prerelease tag.
SemverDiff(a, b) ==
    LET x == SemverVersions[a]
        y == SemverVersions[b]
        prefix == IF (a \in SemverPrereleases /\ ~SemverLt(x, y))
                     \/ (b \in SemverPrereleases /\ ~SemverLt(y, x))
                  THEN "pre" ELSE ""
    IN  IF a = b THEN "null"
        ELSE IF x[1] # y[1] THEN prefix \o "major"
        ELSE IF x[2] # y[2] THEN prefix \o "minor"
        ELSE IF x[3] # y[3] THEN prefix \o "patch"
        ELSE "prerelease"

(***************************************************************************)
(* Program constants and tables                                            *)
(***************************************************************************)
MAX_PACKAGES == 600

BATCH_SIZE == 10

DistTagsConcurrency == 8

VersionInfoConcurrency == 6

UNKNOWN == <<"U","N","K","N","O","W","N">>

Minimist == <<"m","i","n","i","m","i","s","t">>

Tar == <<"t","a","r">>

UaParserJs == <<"u","a","-","p","a","r","s","e","r","-","j","s">>

AnsiRegex == <<"a","n","s","i","-","r","e","g","e","x">>

NodeForge == <<"n","o","d","e","-","f","o","r","g","e">>

fallbackVulns ==
    (Minimist :> <<[range |-> "<1.2.6", fix |-> "1.2.8",
        msg |-> "Prototype pollution (CVE-2020-7598). Upgrade recommended."]>>) @@
    (Tar :> <<[range |-> "<4.4.19", fix |-> "4.4.19",
        msg |-> "Path traversal vulnerability (CVE-2021-32804). Upgrade recommended."]>>) @@
    (UaParserJs :> <<[range |-> "<0.7.24", fix |-> "0.7.24",
        msg |-> "Regular Expression Denial of Service (CVE-2020-36313). Upgrade recommended."]>>) @@
    (AnsiRegex :> <<[range |-> "<5.0.1", fix |-> "5.0.1",
        msg |-> "Regular Expression Denial of Service (CVE-2021-3807). Upgrade recommended."]>>) @@
    (NodeForge :> <<[range |-> "<1.3.1", fix |-> "1.3.1",
        msg |-> "Prototype pollution vulnerability (CVE-2022-24773). Upgrade recommended."]>>)

topPackages == <<
    <<"r","e","a","c","t">>,
    <<"r","e","a","c","t","-","d","o","m">>,
    <<"n","e","x","t">>,
    <<"e","x","p","r","e","s","s">>,
    <<"l","o","d","a","s","h">>,
    <<"a","x","i","o","s">>,
    <<"t","y","p","e","s","c","r","i","p","t">>,
    <<"e","s","l","i","n","t">>,
    <<"w","e","b","p","a","c","k">>,
    <<"v","u","e">>,
    <<"a","n","g","u","l","a","r">>,
    <<"j","q","u","e","r","y">>,
    <<"m","o","m","e","n","t">>,
    <<"b","o","o","t","s","t","r","a","p">>,
    <<"t","a","i","l","w","i","n","d","c","s","s">>,
    <<"p","r","e","t","t","i","e","r">>,
    <<"j","e","s","t">>>>

\* The alternatives of /-(js|ts|node|npm|cli|lib|utils?|core|api)$/i.
IntentionalSuffixes == {
    <<"-","j","s">>, <<"-","t","s">>, <<"-","n","o","d","e">>, <<"-","n","p","m">>,
    <<"-","c","l","i">>, <<"-","l","i","b">>, <<"-","u","t","i","l">>,
    <<"-","u","t","i","l","s">>, <<"-","c","o","r","e">>, <<"-","a","p","i">>}

\* The `name@version` key of the handler's maps, and the `name@fix` of an issue.
Key(name, version) == Str(name) \o "@" \o version

(***************************************************************************)
(* levenshteinDistance: the matrix is filled row by row; a row holds       *)
(* matrix[j][0..a.length] at positions 1..a.length+1.                      *)
(***************************************************************************)
RECURSIVE LevCells(_, _, _, _)
LevCells(prev, cur, a, bj) ==
    IF Len(cur) = Len(prev) THEN cur
    ELSE LET i == Len(cur)
             indicator == IF a[i] = bj THEN 0 ELSE 1
         IN  LevCells(prev,
                      Append(cur, Min(Min(cur[i] + 1, prev[i + 1] + 1),
                                      prev[i] + indicator)),
                      a, bj)

RECURSIVE LevRows(_, _, _, _)
LevRows(prev, a, b, j) ==
    IF j > Len(b) THEN prev[Len(a) + 1]
    ELSE LevRows(LevCells(prev, <<j>>, a, b[j]), a, b, j + 1)

levenshteinDistance(a, b) == LevRows([i \in 1..(Len(a) + 1) |-> i - 1], a, b, 1)

(***************************************************************************)
(* extractVersionInfo.  A metadata body is a JSON value read through       *)
(* optional chaining: [license, deprecated, scripts], each optional.  A    *)
(* license field is [tag |-> "string", text], [tag |-> "object", type]     *)
(* (type optional) or [tag |-> "array", items] (items of the first two).   *)
(***************************************************************************)
LicenseItemText(l) ==
    IF l.tag = "string" THEN l.text
    ELSE IF IsSome(l.type) /\ l.type[1] # <<>> THEN l.type[1]
    ELSE <<"[","o","b","j","e","c","t"," ","O","b","j","e","c","t","]">>

RECURSIVE JoinLicenses(_)
JoinLicenses(items) ==
    IF items = <<>> THEN <<>>
    ELSE IF Len(items) = 1 THEN LicenseItemText(items[1])
    ELSE LicenseItemText(items[1]) \o <<",", " ">> \o JoinLicenses(Tail(items))

NormalizeLicense(field) ==
    IF field = None \/ (field[1].tag = "string" /\ field[1].text = <<>>) THEN UNKNOWN
    ELSE LET l == field[1]
         IN  CASE l.tag = "string" -> l.text
               [] l.tag = "object" ->
                    IF IsSome(l.type) /\ l.type[1] # <<>> THEN l.type[1]
                    ELSE <<"{","}">>
               [] l.tag = "array" -> JoinLicenses(l.items)

extractVersionInfo(versionMeta, name, version) ==
    LET license == NormalizeLicense(versionMeta.license)
        script(s) == IsSome(versionMeta.scripts) /\ versionMeta.scripts[1][s]
    IN  [name |-> name,
         version |-> version,
         license |-> IF license = <<>> THEN UNKNOWN ELSE license,
         deprecated |-> IsSome(versionMeta.deprecated) /\ versionMeta.deprecated[1] # "",
         scripts |-> [preinstall |-> script("preinstall"),
                      postinstall |-> script("postinstall"),
                      install |-> script("install")],
         error |-> FALSE]

\* A catch block that forgets the __error marker.
LookupUnmarked(name, version) ==
    [name |-> name,
     version |-> version,
     license |-> UNKNOWN,
     deprecated |-> FALSE,
     scripts |-> [preinstall |-> FALSE, postinstall |-> FALSE, install |-> FALSE],
     error |-> FALSE]

\* The marker the version-metadata worker returns from its catch block.
LookupFailed(name, version) ==
    [name |-> name,
     version |-> version,
     license |-> UNKNOWN,
     deprecated |-> FALSE,
     scripts |-> [preinstall |-> FALSE, postinstall |-> FALSE, install |-> FALSE],
     error |-> TRUE]

(***************************************************************************)
(* checkLicenseConflict                                                    *)
(***************************************************************************)
GPL == <<"G","P","L">>

LGPL == <<"L","G","P","L">>

AGPL == <<"A","G","P","L">>

MIT == <<"M","I","T">>

BSD == <<"B","S","D">>

APACHE == <<"A","P","A","C","H","E">>

checkLicenseConflict(projectLicense, packageLicense) ==
    IF projectLicense = <<>> \/ packageLicense = <<>> \/ packageLicense = UNKNOWN
    THEN None
    ELSE LET project == ToUpperCase(projectLicense)
             pkg == ToUpperCase(packageLicense)
             permissive == \/ Includes(project, MIT)
                           \/ Includes(project, BSD)
                           \/ Includes(project, APACHE)
         IN  IF permissive /\ Includes(pkg, GPL) /\ ~Includes(pkg, LGPL)
             THEN Some([hasConflict |-> TRUE, severity |-> "warning",
                        reason |-> Str(packageLicense)
                            \o " requires derivatives to be open source, conflicts with "
                            \o Str(projectLicense)])
             ELSE IF permissive /\ Includes(pkg, AGPL)
             THEN Some([hasConflict |-> TRUE, severity |-> "warning",
                        reason |-> Str(packageLicense)
                            \o " requires network use to trigger copyleft, conflicts with "
                            \o Str(projectLicense)])
             ELSE IF Includes(project, MIT) /\ Includes(pkg, LGPL)
             THEN Some([hasConflict |-> FALSE, severity |-> "info",
                        reason |-> Str(packageLicense)
                            \o " is compatible but may require attribution/distribution of LGPL portions"])
             ELSE None

(***************************************************************************)
(* osvToIssue.  An advisory is [id, summary, aliases, severity,            *)
(* dbSeverity, affected]; every field but id is optional, as in the JSON   *)
(* the service sends.  Reading a property of an absent value is a          *)
(* TypeError: OsvToIssueThrows says when the conversion raises one.        *)
(***************************************************************************)
CvePrefix == <<"C","V","E","-">>

StartsWith(cs, prefix) ==
    Len(cs) >= Len(prefix) /\ SubSeq(cs, 1, Len(prefix)) = prefix

\* parseFloat, in tenths; a CVSS vector string parses to NaN (absent).
ParseFloatTenths(score) ==
    CASE score = "9.8" -> Some(98)
      [] score = "9.0" -> Some(90)
      [] score = "7.5" -> Some(75)
      [] score = "7.0" -> Some(70)
      [] score = "6.9" -> Some(69)
      [] score = "5.3" -> Some(53)
      [] score = "4.0" -> Some(40)
      [] score = "3.9" -> Some(39)
      [] score = "2.1" -> Some(21)
      [] OTHER -> None

OsvCveId(vuln) ==
    LET aliases == IF IsSome(vuln.aliases) THEN vuln.aliases[1] ELSE <<>>
        cves == SelectSeq(aliases, LAMBDA a : StartsWith(a, CvePrefix))
    IN  IF cves # <<>> THEN Str(cves[1]) ELSE vuln.id

OsvLevel(vuln) ==
    IF IsSome(vuln.severity) /\ vuln.severity[1] # <<>>
    THEN LET severity == vuln.severity[1][1]
         IN  IF severity.type = "CVSS_V3" /\ severity.score # ""
             THEN LET score == ParseFloatTenths(severity.score)
                  IN  IF IsSome(score) /\ score[1] >= 90 THEN "critical"
                      ELSE IF IsSome(score) /\ score[1] >= 70 THEN "critical"
                      ELSE IF IsSome(score) /\ score[1] >= 40 THEN "warning"
                      ELSE "info"
             ELSE "warning"
    ELSE IF IsSome(vuln.dbSeverity) /\ vuln.dbSeverity[1] # <<>>
    THEN LET severity == ToLowerCase(vuln.dbSeverity[1])
         IN  IF \/ Includes(severity, <<"c","r","i","t","i","c","a","l">>)
                \/ Includes(severity, <<"h","i","g","h">>)
             THEN "critical"
             ELSE IF Includes(severity, <<"m","e","d","i","u","m">>) THEN "warning"
             ELSE "info"
    ELSE "warning"

\* vuln.affected?.find(a => a.package.name === packageName): the index of the
\* first match, 0 when there is none, -1 when an entry without `package` is
\* read first.
RECURSIVE FindAffected(_, _, _)
FindAffected(affected, packageName, k) ==
    IF k > Len(affected) THEN 0
    ELSE IF affected[k].package = None THEN -1
    ELSE IF affected[k].package[1].name = packageName THEN k
    ELSE FindAffected(affected, packageName, k + 1)

\* The loop over affected.ranges: <<"fix", v>> at the first range with a
\* fixed event, <<"none">> when no range has one, <<"throw">> when a range
\* without `events` is read first.
RECURSIVE FindFixed(_, _)
FindFixed(ranges, k) ==
    IF k > Len(ranges) THEN <<"none">>
    ELSE IF ranges[k].events = None THEN <<"throw">>
    ELSE LET fixedEvents == SelectSeq(ranges[k].events[1],
                                      LAMBDA e : IsSome(e.fixed) /\ e.fixed[1] # "")
         IN  IF fixedEvents # <<>> THEN <<"fix", fixedEvents[1].fixed[1]>>
             ELSE FindFixed(ranges, k + 1)

OsvFixed(vuln, packageName) ==
    IF vuln.affected = None THEN <<"none">>
    ELSE LET k == FindAffected(vuln.affected[1], packageName, 1)
         IN  IF k = -1 THEN <<"throw">>
             ELSE IF k = 0 \/ vuln.affected[1][k].ranges = None THEN <<"none">>
             ELSE FindFixed(vuln.affected[1][k].ranges[1], 1)

OsvToIssueThrows(vuln, packageName) ==
    \/ OsvFixed(vuln, packageName) = <<"throw">>
    \/ vuln.summary = None

osvToIssue(vuln, packageName) ==
    LET fixed == OsvFixed(vuln, packageName)
        summary == vuln.summary[1]
    IN  [level |-> OsvLevel(vuln),
         kind |-> "vuln",
         msg |-> OsvCveId(vuln) \o ": " \o Substring0(summary, 80)
                    \o (IF Len(summary) > 80 THEN "..." ELSE ""),
         fix |-> IF fixed[1] = "fix" THEN Some(Key(packageName, fixed[2])) ELSE None]

(***************************************************************************)
(* The detector pipeline of the result loop, one operator per detector.    *)
(* A dependency is [name, version, requested]; osvVulnMap, distTagsMap and *)
(* versionInfoMap are functions whose domain is the set of keys present.   *)
(***************************************************************************)
MapGet(map, key) == IF key \in DOMAIN map THEN Some(map[key]) ELSE None

MetaIssue == [level |-> "info", kind |-> "meta", msg |-> "Could not fetch metadata", fix |-> None]

DeprecatedIssues(versionInfo) ==
    IF versionInfo.deprecated
    THEN <<[level |-> "warning", kind |-> "deprecated", msg |-> "Package deprecated", fix |-> None]>>
    ELSE <<>>

ScriptsIssues(versionInfo) ==
    LET scriptTypes ==
            (IF versionInfo.scripts.preinstall THEN <<"preinstall">> ELSE <<>>)
            \o (IF versionInfo.scripts.postinstall THEN <<"postinstall">> ELSE <<>>)
            \o (IF versionInfo.scripts.install THEN <<"install">> ELSE <<>>)
        joined == IF Len(scriptTypes) = 1 THEN scriptTypes[1]
                  ELSE IF Len(scriptTypes) = 2 THEN scriptTypes[1] \o ", " \o scriptTypes[2]
                  ELSE "preinstall, postinstall, install"
    IN  IF Len(scriptTypes) > 0
        THEN <<[level |-> "warning", kind |-> "scripts",
                msg |-> "Has " \o joined \o " script(s)", fix |-> None]>>
        ELSE <<>>

\* A detector that reports conflicts only, not the compatible-with-notice case.
LicenseConflictsOnly(projectLicense, license) ==
    IF IsSome(projectLicense) /\ projectLicense[1] # <<>> /\ license # <<>>
    THEN LET conflict == checkLicenseConflict(projectLicense[1], license)
         IN  IF IsSome(conflict) /\ conflict[1].hasConflict
             THEN <<[level |-> conflict[1].severity, kind |-> "license",
                     msg |-> conflict[1].reason, fix |-> None]>>
             ELSE <<>>
    ELSE <<>>

LicenseIssues(projectLicense, license) ==
    IF IsSome(projectLicense) /\ projectLicense[1] # <<>> /\ license # <<>>
    THEN LET conflict == checkLicenseConflict(projectLicense[1], license)
         IN  IF IsSome(conflict)
             THEN <<[level |-> conflict[1].severity, kind |-> "license",
                     msg |-> conflict[1].reason, fix |-> None]>>
             ELSE <<>>
    ELSE <<>>

FallbackIssue(d, ventry) ==
    [level |-> "critical", kind |-> "vuln",
     msg |-> Substring0(ventry.msg, 100),
     fix |-> Some(Key(d.name, ventry.fix))]

FallbackIssues(d) ==
    LET seeds == IF d.name \in DOMAIN fallbackVulns THEN fallbackVulns[d.name] ELSE <<>>
        hits == SelectSeq(seeds, LAMBDA ventry : SemverSatisfies(d.version, ventry.range))
    IN  [k \in 1..Len(hits) |-> FallbackIssue(d, hits[k])]

\* A fallback tried for every package that has no OSV advisory.
UseFallbackPerPackage(osvVulnMap) == TRUE

\* The static table is consulted only when the OSV result map is empty.
UseFallback(osvVulnMap) == Cardinality(DOMAIN osvVulnMap) = 0

OsvVulnsOf(d, osvVulnMap) ==
    LET osvVulns == MapGet(osvVulnMap, Key(d.name, d.version))
    IN  IF IsSome(osvVulns) THEN osvVulns[1] ELSE <<>>

VulnThrows(d, osvVulnMap) ==
    \E k \in 1..Len(OsvVulnsOf(d, osvVulnMap)) :
        OsvToIssueThrows(OsvVulnsOf(d, osvVulnMap)[k], d.name)

VulnIssues(d, osvVulnMap) ==
    LET osvVulns == OsvVulnsOf(d, osvVulnMap)
    IN  IF Len(osvVulns) > 0
        THEN [k \in 1..Len(osvVulns) |-> osvToIssue(osvVulns[k], d.name)]
        ELSE IF UseFallback(osvVulnMap) THEN FallbackIssues(d)
        ELSE <<>>

HasIntentionalSuffix(name) ==
    \E suffix \in IntentionalSuffixes : EndsWith(ToLowerCase(name), suffix)

\* A scope test that lets every name through.
HasScopeNever(name) == FALSE

HasScope(name) == Len(name) > 0 /\ name[1] = "@"

RECURSIVE TyposquatLoop(_, _)
TyposquatLoop(name, k) ==
    IF k > Len(topPackages) THEN <<>>
    ELSE IF /\ levenshteinDistance(name, topPackages[k]) = 1
            /\ name # topPackages[k]
            /\ ~HasIntentionalSuffix(name)
            /\ ~HasScope(name)
    THEN <<[level |-> "warning", kind |-> "typosquat",
            msg |-> "Similar to \"" \o Str(topPackages[k]) \o "\"", fix |-> None]>>
    ELSE TyposquatLoop(name, k + 1)

TyposquatIssues(name) == TyposquatLoop(name, 1)

\* A detector that suggests the latest version whatever the requested range.
UpdateIgnoringRange(d, latest) ==
    IF IsSome(latest) /\ latest[1] # "" /\ latest[1] # d.version
    THEN LET current == SemverValid(d.version)
             latestValid == SemverValid(latest[1])
         IN  IF IsSome(current) /\ IsSome(latestValid)
             THEN LET diff == SemverDiff(current[1], latestValid[1])
                  IN  IF diff = "patch" \/ diff = "minor"
                      THEN <<[level |-> "info", kind |-> "update",
                              msg |-> diff \o " update to " \o latest[1],
                              fix |-> Some(Key(d.name, latest[1]))]>>
                      ELSE <<>>
             ELSE <<>>
    ELSE <<>>

UpdateIssues(d, latest) ==
    IF IsSome(latest) /\ latest[1] # "" /\ latest[1] # d.version
    THEN LET current == SemverValid(d.version)
             latestValid == SemverValid(latest[1])
         IN  IF IsSome(current) /\ IsSome(latestValid)
             THEN LET diff == SemverDiff(current[1], latestValid[1])
                      shouldSuggest ==
                          IF IsSome(d.requested) /\ d.requested[1] # ""
                          THEN SemverSatisfies(latestValid[1], d.requested[1])
                          ELSE TRUE
                  IN  IF (diff = "patch" \/ diff = "minor") /\ shouldSuggest
                      THEN <<[level |-> "info", kind |-> "update",
                              msg |-> diff \o " update to " \o latest[1],
                              fix |-> Some(Key(d.name, latest[1]))]>>
                      ELSE <<>>
             ELSE <<>>
    ELSE <<>>

\* The issues pushed for one dependency whose metadata was fetched.
\* A pipeline that runs the typosquat detector before the vulnerability one.
TyposquatFirstPipeline(d, versionInfo, latest, osvVulnMap, projectLicense) ==
    DeprecatedIssues(versionInfo)
    \o ScriptsIssues(versionInfo)
    \o LicenseIssues(projectLicense, versionInfo.license)
    \o TyposquatIssues(d.name)
    \o VulnIssues(d, osvVulnMap)
    \o UpdateIssues(d, latest)

DetectorPipeline(d, versionInfo, latest, osvVulnMap, projectLicense) ==
    DeprecatedIssues(versionInfo)
    \o ScriptsIssues(versionInfo)
    \o LicenseIssues(projectLicense, versionInfo.license)
    \o VulnIssues(d, osvVulnMap)
    \o TyposquatIssues(d.name)
    \o UpdateIssues(d, latest)

\* What the optional chaining on versionInfo reads when the map has no entry
\* for the key (lines 402-418): no license, no marker, nothing set.
NoVersionInfo(name, version) ==
    [name |-> name,
     version |-> version,
     license |-> UNKNOWN,
     deprecated |-> FALSE,
     scripts |-> [preinstall |-> FALSE, postinstall |-> FALSE, install |-> FALSE],
     error |-> FALSE]

\* One iteration of the result loop; `threw` when osvToIssue raises.
AnalyzeDep(d, versionInfoMap, distTagsMap, osvVulnMap, projectLicense) ==
    LET versionInfo == IF Key(d.name, d.version) \in DOMAIN versionInfoMap
                       THEN versionInfoMap[Key(d.name, d.version)]
                       ELSE NoVersionInfo(d.name, d.version)
        latest == MapGet(distTagsMap, d.name)
        res == [name |-> d.name, version |-> d.version, requested |-> d.requested,
                latest |-> latest, license |-> versionInfo.license, issues |-> <<>>]
    IN  IF versionInfo.error
        THEN [threw |-> FALSE, res |-> [res EXCEPT !.issues = <<MetaIssue>>]]
        ELSE IF VulnThrows(d, osvVulnMap)
        THEN [threw |-> TRUE, res |-> res]
        ELSE [threw |-> FALSE,
              res |-> [res EXCEPT !.issues =
                  DetectorPipeline(d, versionInfo, latest, osvVulnMap, projectLicense)]]

(***************************************************************************)
(* Aggregation: counts, score and license summary                          *)
(***************************************************************************)
\* The elements of s whose key (keys[i] for s[i]) does not occur earlier, in
\* order: the values of a Map filled by `if (!acc.has(key)) acc.set(key, x)`,
\* and the elements of `[...new Set(s)]`.
FirstOccurrences(s, keys) ==
    LET idx == SelectSeq([i \in 1..Len(s) |-> i],
                         LAMBDA i : \A j \in 1..(i - 1) : keys[j] # keys[i])
    IN  [p \in 1..Len(idx) |-> s[idx[p]]]

DepKey(d) == Key(d.name, d.version)

\* The reduce of lines 308-314: one entry per key, the first one.
UniqueDeps(deps) == FirstOccurrences(deps, [i \in 1..Len(deps) |-> DepKey(deps[i])] \o <<>>)

CapDeps(uniqueDeps) == Slice(uniqueDeps, 0, MAX_PACKAGES)

\* A cap reported as soon as it is reached.
IsLimitedAtCap(uniqueDeps) == Len(uniqueDeps) >= MAX_PACKAGES

\* Line 317.
IsLimited(uniqueDeps) == Len(uniqueDeps) > MAX_PACKAGES

UniquePackageNames(depsToAnalyze) ==
    LET names == [i \in 1..Len(depsToAnalyze) |-> depsToAnalyze[i].name] \o <<>>
    IN  FirstOccurrences(names, names)

\* A count of the results that have an issue of the level.
CountResultsWithLevel(results, level) ==
    Cardinality({i \in 1..Len(results) :
                    \E k \in 1..Len(results[i].issues) : results[i].issues[k].level = level})

\* results.reduce((sum, r) => sum + r.issues.filter(i => i.level === level).length, 0)
CountLevel(results, level) ==
    Cardinality({ik \in UNION {{<<i, k>> : k \in 1..Len(results[i].issues)} :
                                i \in 1..Len(results)} :
                    results[ik[1]].issues[ik[2]].level = level})

\* A scoring that lets warnings through.
ScoreIgnoringWarnings(criticalCount, warningCount) ==
    IF criticalCount > 0 THEN "C" ELSE "A"

ScoreOf(criticalCount, warningCount) ==
    IF criticalCount > 0 THEN "C"
    ELSE IF warningCount > 0 THEN "B"
    ELSE "A"

\* The license summary: a Map in first-seen order, then a stable sort by
\* descending count, cut to ten entries.
LicenseSummary(results) ==
    LET known == SelectSeq([i \in 1..Len(results) |-> results[i].license],
                           LAMBDA l : l # <<>> /\ l # UNKNOWN)
        firsts == FirstOccurrences(known, known)
    IN  [p \in 1..Len(firsts) |->
            [license |-> firsts[p],
             count |-> Cardinality({i \in 1..Len(known) : known[i] = firsts[p]})]]

\* A summary cut to ten entries without sorting.
TopLicensesUnsorted(results) == Slice(LicenseSummary(results), 0, 10)

TopLicenses(results) ==
    LET entries == LicenseSummary(results)
        rank(p) == Cardinality({q \in 1..Len(entries) :
                        \/ entries[q].count > entries[p].count
                        \/ entries[q].count = entries[p].count /\ q < p}) + 1
        sorted == [r \in 1..Len(entries) |->
                      entries[CHOOSE p \in 1..Len(entries) : rank(p) = r]]
    IN  Slice(sorted, 0, 10)

BuildReport(deps, projectLicense, isLimited, vulnSource, results) ==
    LET criticalCount == CountLevel(results, "critical")
        warningCount == CountLevel(results, "warning")
        infoCount == CountLevel(results, "info")
    IN  [score |-> ScoreOf(criticalCount, warningCount),
         count |-> Len(results),
         total |-> Len(deps),
         isLimited |-> isLimited,
         criticalCount |-> criticalCount,
         warningCount |-> warningCount,
         infoCount |-> infoCount,
         projectLicense |-> projectLicense,
         topLicenses |-> TopLicenses(results),
         vulnSource |-> vulnSource,
         results |-> results]

(***************************************************************************)
(* The remote services.  What a service answers when nothing goes wrong is *)
(* fixed data (a small registry and advisory database); a world names the  *)
(* calls that go otherwise, and how.                                       *)
(***************************************************************************)
Reactt == <<"r","e","a","c","t","t">>

ISC == <<"I","S","C">>

GPL3 == <<"G","P","L","-","3",".","0">>

\* The license strings of the packages lic1, lic2, ... of the registry.
Licenses ==
    <<<<"G","P","L","-","2",".","0">>,
      <<"L","G","P","L","-","2",".","1">>,
      <<"A","G","P","L","-","3",".","0">>,
      <<"(","L","G","P","L","-","3",".","0"," ","O","R"," ","A","G","P","L","-","3",".","0",")">>,
      <<"g","p","l","-","3",".","0","-","o","n","l","y">>,
      <<"A","p","a","c","h","e","-","2",".","0">>,
      <<"B","S","D","-","3","-","C","l","a","u","s","e">>,
      <<"M","P","L","-","2",".","0">>,
      <<"U","N","K","N","O","W","N">>,
      <<>>,
      <<"U","n","l","i","c","e","n","s","e">>,
      <<"C","C","0","-","1",".","0">>,
      <<"W","T","F","P","L">>,
      <<"0","B","S","D">>>>

LicensedName(i) == <<"l","i","c">> \o Digits(i)

LicensedNames == {LicensedName(i) : i \in 1..Len(Licenses)}

LicenseOf(name) == Licenses[CHOOSE i \in 1..Len(Licenses) : LicensedName(i) = name]

RegistryVersionMeta(name, version) ==
    IF name \in LicensedNames
    THEN [license |-> Some([tag |-> "string", text |-> LicenseOf(name)]),
          deprecated |-> None,
          scripts |-> None]
    ELSE IF name = Reactt
    THEN [license |-> Some([tag |-> "object", type |-> Some(GPL3)]),
          deprecated |-> Some("no longer maintained"),
          scripts |-> Some([preinstall |-> FALSE, postinstall |-> TRUE, install |-> FALSE])]
    ELSE IF name = Minimist
    THEN [license |-> Some([tag |-> "string", text |-> MIT]),
          deprecated |-> None,
          scripts |-> None]
    ELSE [license |-> Some([tag |-> "array",
                            items |-> <<[tag |-> "object", type |-> Some(ISC)]>>]),
          deprecated |-> None,
          scripts |-> Some([preinstall |-> FALSE, postinstall |-> FALSE, install |-> FALSE])]

\* The JSON body of a non-2xx registry answer, e.g. {"error": "Not found"}.
RegistryErrorBody == [license |-> None, deprecated |-> None, scripts |-> None]

RegistryLatest(name) ==
    IF name = Reactt THEN Some("1.3.0")
    ELSE IF name = Minimist THEN Some("1.2.8")
    ELSE IF name = Tar THEN Some("2.0.0")
    ELSE IF name = AnsiRegex THEN Some("2.1.0-rc.1")
    ELSE IF name = NodeForge THEN Some("0.10")
    ELSE Some("1.0.0")

\* The `severity` arrays and the database_specific.severity strings found
\* among the advisories of ua-parser-js: one advisory per combination.
SeverityFields ==
    <<None,
      Some(<<>>),
      Some(<<[type |-> "CVSS_V3", score |-> "9.8"]>>),
      Some(<<[type |-> "CVSS_V3", score |-> "9.0"]>>),
      Some(<<[type |-> "CVSS_V3", score |-> "7.5"]>>),
      Some(<<[type |-> "CVSS_V3", score |-> "7.0"]>>),
      Some(<<[type |-> "CVSS_V3", score |-> "6.9"]>>),
      Some(<<[type |-> "CVSS_V3", score |-> "5.3"]>>),
      Some(<<[type |-> "CVSS_V3", score |-> "4.0"]>>),
      Some(<<[type |-> "CVSS_V3", score |-> "3.9"]>>),
      Some(<<[type |-> "CVSS_V3", score |-> "2.1"]>>),
      Some(<<[type |-> "CVSS_V3", score |-> "CVSS:3.1/AV:N/AC:L/PR:N/UI:N/S:U/C:H/I:H/A:H"]>>),
      Some(<<[type |-> "CVSS_V3", score |-> ""]>>),
      Some(<<[type |-> "CVSS_V2", score |-> "7.5"]>>)>>

DbSeverities ==
    <<None,
      Some(<<"C","R","I","T","I","C","A","L">>),
      Some(<<"H","I","G","H">>),
      Some(<<"M","E","D","I","U","M">>),
      Some(<<"M","O","D","E","R","A","T","E">>),
      Some(<<"L","O","W">>)>>

SeverityAdvisory(k) ==
    [id |-> "GHSA-" \o ToString(k),
     summary |-> Some("ReDoS in ua-parser-js"),
     aliases |-> None,
     severity |-> SeverityFields[(k - 1) \div Len(DbSeverities) + 1],
     dbSeverity |-> DbSeverities[((k - 1) % Len(DbSeverities)) + 1],
     affected |-> None]

OsvDb(name, version) ==
    IF name = UaParserJs
    THEN [k \in 1..(Len(SeverityFields) * Len(DbSeverities)) |-> SeverityAdvisory(k)]
    ELSE IF name = Minimist /\ version = "1.2.5"
    THEN <<[id |-> "GHSA-xvch-5gv4-984h",
            summary |-> Some("Prototype Pollution in minimist"),
            aliases |-> Some(<<<<"C","V","E","-","2","0","2","1","-","4","4","9","0","6">>>>),
            severity |-> Some(<<[type |-> "CVSS_V3", score |-> "9.8"]>>),
            dbSeverity |-> Some(<<"C","R","I","T","I","C","A","L">>),
            affected |-> Some(<<[package |-> Some([name |-> Minimist]),
                                 ranges |-> Some(<<[events |-> Some(<<[fixed |-> None],
                                                                     [fixed |-> Some("1.2.6")]>>)]>>)]>>)]>>
    ELSE IF name = Reactt
    THEN <<[id |-> "MAL-2024-1187",
            summary |-> Some(LongSummary),
            aliases |-> None,
            severity |-> None,
            dbSeverity |-> Some(<<"M","E","D","I","U","M">>),
            affected |-> None]>>
    ELSE <<>>

\* An advisory as the querybatch endpoint abridges it: the id alone.
BareAdvisory(vuln) ==
    [id |-> vuln.id, summary |-> None, aliases |-> None, severity |-> None,
     dbSeverity |-> None, affected |-> None]

DistFaults == {"throw", "non2xx"}

MetaFaults == {"throw", "non2xx"}

OsvFaults == {"throw", "non2xx", "bare", "clean", "short"}

OutcomeOf(faults, call) == IF call \in DOMAIN faults THEN faults[call] ELSE "ok"

\* The JSON body of a non-2xx dist-tags answer: it has no `latest`.
RegistryErrorLatest == None

\* The dist-tags worker (lines 327-336): it never rejects.
DistTagsWorker(world, name) ==
    CASE OutcomeOf(world.dist, name) = "throw" -> [name |-> name, latest |-> None]
      [] OutcomeOf(world.dist, name) = "non2xx" ->
            [name |-> name, latest |-> RegistryErrorLatest]
      [] OTHER -> [name |-> name, latest |-> RegistryLatest(name)]

\* The version-metadata worker (lines 349-365): it never rejects.
VersionInfoWorker(world, dep) ==
    CASE OutcomeOf(world.meta, DepKey(dep)) = "throw" ->
            LookupFailed(dep.name, dep.version)
      [] OutcomeOf(world.meta, DepKey(dep)) = "non2xx" ->
            extractVersionInfo(RegistryErrorBody, dep.name, dep.version)
      [] OTHER ->
            extractVersionInfo(RegistryVersionMeta(dep.name, dep.version),
                               dep.name, dep.version)

\* The body of a 2xx answer to one sub-batch: one entry per query, its
\* `vulns` optional; "short" answers lack the last entry and "long" ones carry
\* one entry more than was asked for.
OsvResponse(batch, outcome) ==
    LET entry(pkg) ==
            LET vulns == OsvDb(pkg.name, pkg.version)
            IN  CASE outcome = "clean" \/ vulns = <<>> -> [vulns |-> None]
                  [] outcome = "bare" ->
                        [vulns |-> Some([k \in 1..Len(vulns) |-> BareAdvisory(vulns[k])])]
                  [] OTHER -> [vulns |-> Some(vulns)]
        aligned == [k \in 1..Len(batch) |-> entry(batch[k])]
    IN  CASE outcome = "short" -> SubSeq(aligned, 1, Len(batch) - 1)
          [] outcome = "long" -> Append(aligned, [vulns |-> Some(OsvDb(Minimist, "1.2.5"))])
          [] OTHER -> aligned

(***************************************************************************)
(* State                                                                   *)
(***************************************************************************)
VARIABLES
    deps,            \* the handler's argument: the raw dependency list
    projectLicense,  \* the handler's argument: optional project license
    world,           \* the remote services' faults: [dist, meta, osv, generic]
    pc,              \* the handler's position
    depsToAnalyze,   \* the deduplicated, capped list
    isLimited,
    sched,           \* the running processWithConcurrency call
    distTagsMap,
    versionInfoMap,
    osv,             \* queryOSVVulnerabilitiesBatch: [i, results]
    osvVulnMap,
    vulnSource,
    thrownAt,        \* index of the dependency whose analysis threw, or 0
    report,          \* the returned report, optional
    reordered,       \* history: some lookup completed before an earlier one of its window
    ui,              \* the usePackageAnalyzer hook: [pc, report, rawReport, ...]
    sizeFetch,       \* npmRegistry.ts: [cache, runs, requests, clears]
    hook,            \* usePackageAnalyzer with overlapping analyses: [input, timer, runs, ...]
    call             \* one external call: [kind, timeoutMs, pc, timer, elapsed]

vars == <<deps, projectLicense, world, pc, depsToAnalyze, isLimited, sched,
          distTagsMap, versionInfoMap, osv, osvVulnMap, vulnSource, thrownAt, report,
          reordered, ui, sizeFetch, hook, call>>

EmptyMap == <<>>

\* map.set(key, value)
MapSet(map, key, value) == (key :> value) @@ map

\* No processWithConcurrency call is running.
NoSched == [kind |-> "none", items |-> <<>>, concurrency |-> 0, i |-> 0,
            window |-> <<>>, calls |-> <<>>, results |-> <<>>]

\* The state of processWithConcurrency on entry: results = [], i = 0.  `window`
\* holds the item indices of the batch being awaited and `calls` the promise
\* of every processor invocation made so far, by item index.
NewSched(kind, items, concurrency) ==
    [kind |-> kind, items |-> items, concurrency |-> concurrency, i |-> 0,
     window |-> <<>>, calls |-> <<>>, results |-> <<>>]

(***************************************************************************)
(* Inputs and worlds of the fine-grained specification                     *)
(***************************************************************************)
MaxDeps == 2

MaxFaults == 2

PackageCatalog ==
    {[name |-> Minimist, version |-> "1.2.5", requested |-> Some("^1.2.5")],
     [name |-> Minimist, version |-> "1.2.8", requested |-> None],
     [name |-> Reactt, version |-> "1.2.5", requested |-> None]}

Inputs == UNION {[1..n -> PackageCatalog] : n \in 0..MaxDeps}

PartialFunctions(D, R) == UNION {[S -> R] : S \in SUBSET D}

SubBatchCount(n) == (n + BATCH_SIZE - 1) \div BATCH_SIZE

\* The worlds in which at most MaxFaults of the calls made for `input` go
\* otherwise than the nominal answer.
Worlds(input) ==
    LET analysed == CapDeps(UniqueDeps(input))
        names == Range(UniquePackageNames(analysed))
        keys == {DepKey(analysed[i]) : i \in 1..Len(analysed)}
        batches == 1..SubBatchCount(Len(analysed))
    IN  {w \in [dist : PartialFunctions(names, DistFaults),
                meta : PartialFunctions(keys, MetaFaults),
                osv : PartialFunctions(batches, OsvFaults),
                generic : {EmptyMap}] :
            Cardinality(DOMAIN w.dist) + Cardinality(DOMAIN w.meta)
                + Cardinality(DOMAIN w.osv) <= MaxFaults}

\* No external call is being followed.
NoCall == [kind |-> "none", timeoutMs |-> 0, pc |-> "none", timer |-> "none", elapsed |-> 0]

\* The state of the usePackageAnalyzer hook before any input (part_002,
\* lines 20-27): no report, grouping enabled.
NoUi == [pc |-> "idle", report |-> None, rawReport |-> None,
         groupSmallPackagesEnabled |-> TRUE, sizeCache |-> <<>>,
         toggles |-> 0, clipboard |-> None]

\* npmRegistry.ts when the module is loaded (line 12): an empty sizeCache and
\* no fetchPackageSizes run.  `requests` counts, per cache key, the registry
\* metadata requests sent since the cache was last cleared.
NoSizes == [cache |-> EmptyMap, runs |-> <<>>, requests |-> EmptyMap, clears |-> 0]

\* The usePackageAnalyzer hook before any input (part_002, lines 20-27), for
\* the specification that follows overlapping analyses: `input` names the
\* parsed input (0 when it has no dependencies), `timer` holds the pending
\* debounce timer, `runs` the timer callbacks that have started, and a report
\* is told by the input it was made from.
NoHook == [input |-> 0, timer |-> None, runs |-> <<>>, report |-> None,
           rawReport |-> None, isAnalyzing |-> FALSE, isFetchingSizes |-> FALSE,
           groupSmallPackagesEnabled |-> TRUE, edits |-> 0, toggles |-> 0]

\* The handler's locals before its first statement.
HandlerLocals ==
    /\ depsToAnalyze = <<>>
    /\ isLimited = FALSE
    /\ distTagsMap = EmptyMap
    /\ versionInfoMap = EmptyMap
    /\ osv = [i |-> 0, results |-> EmptyMap]
    /\ osvVulnMap = EmptyMap
    /\ vulnSource = "fallback"
    /\ thrownAt = 0
    /\ report = None
    /\ reordered = FALSE
    /\ ui = NoUi
    /\ sizeFetch = NoSizes
    /\ hook = NoHook

HandlerStart ==
    /\ pc = "start"
    /\ sched = NoSched
    /\ call = NoCall
    /\ HandlerLocals

Init ==
    /\ deps \in Inputs
    /\ projectLicense \in {None, Some(MIT)}
    /\ world \in Worlds(deps)
    /\ HandlerStart

(***************************************************************************)
(* processWithConcurrency (lines 279-298), one window at a time            *)
(***************************************************************************)
\* The value a processor that is not one of the handler's two workers
\* fulfils with.
GenericValue(item) == <<"value", item>>

\* What the processor's promise settles to for one item.
Processor(kind, item) ==
    CASE kind = "distTags" -> [ok |-> TRUE, value |-> DistTagsWorker(world, item)]
      [] kind = "versionInfo" -> [ok |-> TRUE, value |-> VersionInfoWorker(world, item)]
      [] OTHER -> IF OutcomeOf(world.generic, item) = "reject"
                  THEN [ok |-> FALSE, value |-> None]
                  ELSE [ok |-> TRUE, value |-> GenericValue(item)]

SchedRunning == sched.kind # "none"

SchedFinished == SchedRunning /\ sched.window = <<>> /\ sched.i >= Len(sched.items)

InFlight(calls) == {idx \in DOMAIN calls : calls[idx].status = "inflight"}

\* batch = items.slice(i, i + concurrency); batch.map(processor) invokes the
\* processor on every item of the batch.
StartWindow ==
    /\ SchedRunning
    /\ sched.window = <<>>
    /\ sched.i < Len(sched.items)
    /\ \E batch \in {[k \in 1..Len(Slice(sched.items, sched.i, sched.concurrency)) |->
                         sched.i + k]} :
          sched' = [sched EXCEPT
                      !.window = batch,
                      !.calls = [idx \in Range(batch) |->
                                    [status |-> "inflight", value |-> None]] @@ @]
    /\ UNCHANGED <<hook, sizeFetch, ui, reordered, call, deps, projectLicense, world, pc, depsToAnalyze, isLimited,
                   distTagsMap, versionInfoMap, osv, osvVulnMap, vulnSource,
                   thrownAt, report>>

\* The promise of one invocation settles; the others stay in flight.
WorkerSettles ==
    /\ SchedRunning
    /\ \E idx \in InFlight(sched.calls) :
        \E outcome \in {Processor(sched.kind, sched.items[idx])} :
            /\ sched' = [sched EXCEPT !.calls[idx] =
                          [status |-> IF outcome.ok THEN "fulfilled" ELSE "rejected",
                           value |-> IF outcome.ok THEN Some(outcome.value) ELSE None]]
            /\ reordered' = (reordered \/ \E earlier \in InFlight(sched.calls) : earlier < idx)
    /\ UNCHANGED <<hook, sizeFetch, ui, call, deps, projectLicense, world, pc, depsToAnalyze, isLimited,
                   distTagsMap, versionInfoMap, osv, osvVulnMap, vulnSource,
                   thrownAt, report>>

\* An await that continues as soon as one promise of the batch has settled.
AnySettled(window, calls) == \E k \in 1..Len(window) : calls[window[k]].status # "inflight"

\* `await Promise.allSettled(...)` continues once every promise of the batch
\* has settled.
AllSettled(window, calls) == \A k \in 1..Len(window) : calls[window[k]].status # "inflight"

\* Promise.all in place of Promise.allSettled: one rejection loses the batch.
ValuesUnlessAnyRejected(window, calls) ==
    IF \E k \in 1..Len(window) : calls[window[k]].status = "rejected" THEN <<>>
    ELSE [k \in 1..Len(window) |-> calls[window[k]].value[1]]

\* A collection that loses the first value of the batch when completions
\* have crossed.
FulfilledValuesRacing(window, calls) ==
    LET fulfilled == SelectSeq(window, LAMBDA idx : calls[idx].status = "fulfilled")
        kept == IF reordered /\ fulfilled # <<>> THEN Tail(fulfilled) ELSE fulfilled
    IN  [k \in 1..Len(kept) |-> calls[kept[k]].value[1]]

\* Lines 290-294: the values of the fulfilled promises, in the order of the
\* batch.
FulfilledValues(window, calls) ==
    LET fulfilled == SelectSeq(window, LAMBDA idx : calls[idx].status = "fulfilled")
    IN  [k \in 1..Len(fulfilled) |-> calls[fulfilled[k]].value[1]]

CloseWindow ==
    /\ SchedRunning
    /\ sched.window # <<>>
    /\ AllSettled(sched.window, sched.calls)
    /\ sched' = [sched EXCEPT !.results = @ \o FulfilledValues(sched.window, sched.calls),
                              !.i = @ + sched.concurrency,
                              !.window = <<>>]
    /\ UNCHANGED <<hook, sizeFetch, ui, reordered, call, deps, projectLicense, world, pc, depsToAnalyze, isLimited,
                   distTagsMap, versionInfoMap, osv, osvVulnMap, vulnSource,
                   thrownAt, report>>

\* Line 297: processWithConcurrency returns its results.
SchedReturn ==
    /\ pc = "scheduler"
    /\ SchedFinished
    /\ pc' = "returned"
    /\ UNCHANGED <<hook, sizeFetch, ui, reordered, call, deps, projectLicense, world, depsToAnalyze, isLimited, sched,
                   distTagsMap, versionInfoMap, osv, osvVulnMap, vulnSource,
                   thrownAt, report>>

(***************************************************************************)
(* analyzePackages.handler (lines 305-561)                                 *)
(***************************************************************************)
\* Lines 324-337 and 346-366: the handler's two processWithConcurrency calls.
DistTagsCall(names) == NewSched("distTags", names, DistTagsConcurrency)

\* The version-metadata lookups run at the concurrency of the dist-tags ones.
VersionInfoCallAtDistTagsLimit(toAnalyze) ==
    NewSched("versionInfo", toAnalyze, DistTagsConcurrency)

VersionInfoCall(toAnalyze) == NewSched("versionInfo", toAnalyze, VersionInfoConcurrency)

\* Lines 306-337: dedupe, cap, and the call that fetches the dist-tags.
Dedupe ==
    /\ pc = "start"
    /\ LET uniqueDeps == UniqueDeps(deps)
       IN  /\ depsToAnalyze' = CapDeps(uniqueDeps)
           /\ isLimited' = IsLimited(uniqueDeps)
           /\ sched' = DistTagsCall(UniquePackageNames(CapDeps(uniqueDeps)))
    /\ pc' = "distTags"
    /\ UNCHANGED <<hook, sizeFetch, ui, reordered, call, deps, projectLicense, world, distTagsMap, versionInfoMap, osv,
                   osvVulnMap, vulnSource, thrownAt, report>>

\* A Map filled by map.set(keys[k], values[k]) for k in order: a later entry
\* replaces an earlier one of the same key.
MapOfSeq(keys, values) ==
    [key \in Range(keys) |->
        values[CHOOSE k \in 1..Len(keys) :
                  /\ keys[k] = key
                  /\ \A j \in (k + 1)..Len(keys) : keys[j] # key]]

\* Lines 339-343: only a truthy `latest` enters the map.
DistTagsMapOf(distTagsResults) ==
    LET found == SelectSeq(distTagsResults, LAMBDA r : IsSome(r.latest) /\ r.latest[1] # "")
    IN  MapOfSeq([k \in 1..Len(found) |-> found[k].name] \o <<>>,
                 [k \in 1..Len(found) |-> found[k].latest[1]] \o <<>>)

\* Lines 369-372.
VersionInfoMapOf(versionInfoResults) ==
    MapOfSeq([k \in 1..Len(versionInfoResults) |->
                 Key(versionInfoResults[k].name, versionInfoResults[k].version)] \o <<>>,
             versionInfoResults)

DistTagsDone ==
    /\ pc = "distTags"
    /\ SchedFinished
    /\ distTagsMap' = DistTagsMapOf(sched.results)
    /\ sched' = VersionInfoCall(depsToAnalyze)
    /\ pc' = "versionInfo"
    /\ UNCHANGED <<hook, sizeFetch, ui, reordered, call, deps, projectLicense, world, depsToAnalyze, isLimited,
                   versionInfoMap, osv, osvVulnMap, vulnSource, thrownAt, report>>

VersionInfoDone ==
    /\ pc = "versionInfo"
    /\ SchedFinished
    /\ versionInfoMap' = VersionInfoMapOf(sched.results)
    /\ sched' = NoSched
    /\ osv' = [i |-> 0, results |-> EmptyMap]
    /\ pc' = "osv"
    /\ UNCHANGED <<hook, sizeFetch, ui, reordered, call, deps, projectLicense, world, depsToAnalyze, isLimited,
                   distTagsMap, osvVulnMap, vulnSource, thrownAt, report>>

(***************************************************************************)
(* queryOSVVulnerabilitiesBatch (lines 48-109), one sub-batch at a time    *)
(***************************************************************************)
\* A forEach that attributes the entries of the response from the end of the
\* sub-batch backwards.
RECURSIVE OsvStoreReversed(_, _, _, _)
OsvStoreReversed(results, batch, response, index) ==
    IF index > Len(response) THEN results
    ELSE OsvStoreReversed(
            IF index <= Len(batch)
            THEN MapSet(results, DepKey(batch[Len(batch) + 1 - index]),
                        IF IsSome(response[index].vulns)
                        THEN response[index].vulns[1] ELSE <<>>)
            ELSE results,
            batch, response, index + 1)

\* Lines 85-91: batchResults.results.forEach((result, index) => ...).
RECURSIVE OsvStoreResults(_, _, _, _)
OsvStoreResults(results, batch, response, index) ==
    IF index > Len(response) THEN results
    ELSE OsvStoreResults(
            IF index <= Len(batch)
            THEN MapSet(results, DepKey(batch[index]),
                        IF IsSome(response[index].vulns)
                        THEN response[index].vulns[1] ELSE <<>>)
            ELSE results,
            batch, response, index + 1)

\* Lines 96-99: the catch block stores an empty list for every package.
RECURSIVE OsvStoreEmpty(_, _, _)
OsvStoreEmpty(results, batch, index) ==
    IF index > Len(batch) THEN results
    ELSE OsvStoreEmpty(MapSet(results, DepKey(batch[index]), <<>>), batch, index + 1)

\* One iteration of the loop of lines 54-106 for the sub-batch at offset i:
\* the fetch throws (transport error, timeout), answers non-2xx, or answers
\* 2xx with a body.
OsvSubBatchResults(results, batch, outcome) ==
    CASE outcome = "throw" -> OsvStoreEmpty(results, batch, 1)
      [] outcome = "non2xx" -> results
      [] OTHER -> OsvStoreResults(results, batch, OsvResponse(batch, outcome), 1)

\* A loop that tests its condition after the first iteration.
OsvLoopAtLeastOnce(i, n) == i < n \/ i = 0

\* Line 54: for (let i = 0; i < packages.length; i += BATCH_SIZE).
OsvLoopContinues(i, n) == i < n

OsvSubBatch ==
    /\ pc = "osv"
    /\ OsvLoopContinues(osv.i, Len(depsToAnalyze))
    /\ LET batch == Slice(depsToAnalyze, osv.i, BATCH_SIZE)
           outcome == OutcomeOf(world.osv, osv.i \div BATCH_SIZE + 1)
       IN  osv' = [i |-> osv.i + BATCH_SIZE,
                   results |-> OsvSubBatchResults(osv.results, batch, outcome)]
    /\ UNCHANGED <<hook, sizeFetch, ui, reordered, call, deps, projectLicense, world, pc, depsToAnalyze, isLimited, sched,
                   distTagsMap, versionInfoMap, osvVulnMap, vulnSource, thrownAt,
                   report>>

\* Lines 379-380: the query returned (it never throws), so vulnSource = "osv".
OsvReturn ==
    /\ pc = "osv"
    /\ ~OsvLoopContinues(osv.i, Len(depsToAnalyze))
    /\ osvVulnMap' = osv.results
    /\ vulnSource' = "osv"
    /\ pc' = "results"
    /\ UNCHANGED <<hook, sizeFetch, ui, reordered, call, deps, projectLicense, world, depsToAnalyze, isLimited, sched,
                   distTagsMap, versionInfoMap, osv, thrownAt, report>>

(***************************************************************************)
(* The result loop, scoring and return (lines 390-560)                     *)
(***************************************************************************)
\* The loop of lines 390-519 over depsToAnalyze, in order: the results when no
\* iteration throws, and the index of the first iteration that throws (0 when
\* none does).
ResultLoop(toAnalyze, infoMap, tagsMap, vulnMap, license) ==
    LET analysed == [i \in 1..Len(toAnalyze) |->
                        AnalyzeDep(toAnalyze[i], infoMap, tagsMap, vulnMap, license)] \o <<>>
        threw == {i \in 1..Len(analysed) : analysed[i].threw}
    IN  [thrownAt |-> IF threw = {} THEN 0 ELSE CHOOSE i \in threw : \A j \in threw : i <= j,
         results |-> [i \in 1..Len(analysed) |-> analysed[i].res] \o <<>>]

\* Lines 390-560: the result loop, then the aggregates and the return value.
ResultLoopAndReturn ==
    /\ pc = "results"
    /\ \E loop \in {ResultLoop(depsToAnalyze, versionInfoMap, distTagsMap,
                                osvVulnMap, projectLicense)} :
          IF loop.thrownAt # 0
          THEN /\ pc' = "thrown"
               /\ thrownAt' = loop.thrownAt
               /\ report' = None
          ELSE /\ pc' = "done"
               /\ thrownAt' = 0
               /\ report' = Some(BuildReport(deps, projectLicense, isLimited, vulnSource,
                                             loop.results))
    /\ UNCHANGED <<hook, sizeFetch, ui, reordered, call, deps, projectLicense, world, depsToAnalyze, isLimited, sched,
                   distTagsMap, versionInfoMap, osv, osvVulnMap, vulnSource>>

Next ==
    \/ Dedupe
    \/ StartWindow
    \/ WorkerSettles
    \/ CloseWindow
    \/ DistTagsDone
    \/ VersionInfoDone
    \/ OsvSubBatch
    \/ OsvReturn
    \/ ResultLoopAndReturn

Spec == Init /\ [][Next]_vars

(***************************************************************************)
(* processWithConcurrency on its own: any items, any limit, processors     *)
(* that may reject, and the handler's two calls with more items than their *)
(* limit                                                                   *)
(***************************************************************************)
MaxItems == 4

MaxLimit == 3

MaxOverflow == 1

\* Dependencies with generated names: pkg1@1.0.0, pkg2@1.0.0, ...
Filler(i) == [name |-> <<"p","k","g">> \o Digits(i), version |-> "1.0.0", requested |-> None]

Fillers(n) == [i \in 1..n |-> Filler(i)]

GenericCalls ==
    {NewSched("generic", [k \in 1..n |-> k], limit) : n \in 0..MaxItems, limit \in 1..MaxLimit}

DistTagsCalls ==
    {DistTagsCall(UniquePackageNames(Fillers(DistTagsConcurrency + over))) :
        over \in 0..MaxOverflow}

VersionInfoCalls ==
    {VersionInfoCall(Fillers(VersionInfoConcurrency + over)) : over \in 0..MaxOverflow}

InitSched ==
    /\ \/ sched \in GenericCalls
       \/ sched \in DistTagsCalls
       \/ sched \in VersionInfoCalls
    /\ world \in [dist : {EmptyMap}, meta : {EmptyMap}, osv : {EmptyMap},
                   generic : IF sched.kind = "generic"
                             THEN PartialFunctions(Range(sched.items), {"reject"})
                             ELSE {EmptyMap}]
    /\ pc = "scheduler"
    /\ call = NoCall
    /\ deps = <<>>
    /\ projectLicense = None
    /\ HandlerLocals

NextSched ==
    \/ StartWindow
    \/ WorkerSettles
    \/ CloseWindow
    \/ SchedReturn

SpecSched == InitSched /\ [][NextSched]_vars

\* The window an item index belongs to, counted from 0.
WindowOf(idx) == (idx - 1) \div sched.concurrency

\* C6: the returned sequence is exactly the values of the fulfilled
\* invocations, in item order, and every item has been processed, rejected
\* invocations notwithstanding.
C6_FulfilledValuesInOrder ==
    pc = "returned" =>
        LET fulfilling == SelectSeq(sched.items,
                                    LAMBDA item : Processor(sched.kind, item).ok)
        IN  /\ sched.results =
                   [k \in 1..Len(fulfilling) |-> Processor(sched.kind, fulfilling[k]).value]
            /\ DOMAIN sched.calls = 1..Len(sched.items)
            /\ InFlight(sched.calls) = {}

C6_RejectionAmongFulfilled ==
    /\ pc = "returned"
    /\ \E r \in DOMAIN sched.calls : \E f \in DOMAIN sched.calls : \E g \in DOMAIN sched.calls :
          /\ sched.calls[r].status = "rejected"
          /\ sched.calls[f].status = "fulfilled"
          /\ sched.calls[g].status = "fulfilled"
          /\ WindowOf(f) = WindowOf(r) /\ r < f
          /\ WindowOf(g) > WindowOf(r)

\* C7: at most `limit` invocations are in flight, every invocation of an
\* earlier window has settled, the invocations made are those of the windows
\* up to the current one, and the handler's limits are 8 and 6.
C7_WindowsSequential ==
    SchedRunning =>
        /\ Cardinality(InFlight(sched.calls)) <= sched.concurrency
        /\ \A idx \in InFlight(sched.calls) : idx > sched.i
        /\ DOMAIN sched.calls = 1..Min(Len(sched.items), sched.i + Len(sched.window))
        /\ sched.kind = "distTags" => sched.concurrency = 8
        /\ sched.kind = "versionInfo" => sched.concurrency = 6

C7_FullWindowInFlight ==
    /\ sched.kind = "distTags"
    /\ Cardinality(InFlight(sched.calls)) = 8
    /\ Len(sched.items) > 8
    /\ sched.i = 0

(***************************************************************************)
(* One external call and its timeout: fetchWithTimeout (lines 193-208) for *)
(* the dist-tags and version-metadata lookups, and the inline fetch of     *)
(* queryOSVVulnerabilitiesBatch (lines 67-100).  Time is counted in        *)
(* milliseconds and passes in ticks; a timer that is due fires before      *)
(* time passes further.                                                    *)
(***************************************************************************)
FetchTimeoutMs == 5000

OsvTimeoutMs == 10000

MaxTicks == 12

TickMs == FetchTimeoutMs \div 5

CallKinds == {"distTags", "versionInfo", "osv"}

TimeoutOf(kind) == IF kind = "osv" THEN OsvTimeoutMs ELSE FetchTimeoutMs

NewCall(kind) ==
    [kind |-> kind, timeoutMs |-> TimeoutOf(kind), pc |-> "start", timer |-> "none",
     elapsed |-> 0]

CallPending == call.pc \in {"fetching", "reading"}

\* Lines 194-198 and 67-70: arm the abort timer, send the request, await the
\* response.
CallStart ==
    /\ call.pc = "start"
    /\ call' = [call EXCEPT !.pc = "fetching", !.timer = "armed"]
    /\ UNCHANGED <<hook, sizeFetch, ui, reordered, deps, projectLicense, world, pc, depsToAnalyze, isLimited, sched,
                   distTagsMap, versionInfoMap, osv, osvVulnMap, vulnSource, thrownAt,
                   report>>

\* The response headers arrive: fetch() resolves, and lines 202 and 79 clear
\* the timer.  fetchWithTimeout then reads the body whatever the status; the
\* OSV request reads it only when the status is 2xx (line 81).
HeadersArrive ==
    /\ call.pc = "fetching"
    /\ \E ok \in BOOLEAN :
          call' = [call EXCEPT !.timer = "cleared",
                               !.pc = IF call.kind = "osv" /\ ~ok THEN "resolved"
                                      ELSE "reading"]
    /\ UNCHANGED <<hook, sizeFetch, ui, reordered, deps, projectLicense, world, pc, depsToAnalyze, isLimited, sched,
                   distTagsMap, versionInfoMap, osv, osvVulnMap, vulnSource, thrownAt,
                   report>>

\* The body arrives in full: response.json() resolves, or rejects when the
\* body is not JSON.
BodyArrives ==
    /\ call.pc = "reading"
    /\ \E parses \in BOOLEAN :
          call' = [call EXCEPT !.pc = IF parses THEN "resolved" ELSE "rejected"]
    /\ UNCHANGED <<hook, sizeFetch, ui, reordered, deps, projectLicense, world, pc, depsToAnalyze, isLimited, sched,
                   distTagsMap, versionInfoMap, osv, osvVulnMap, vulnSource, thrownAt,
                   report>>

\* The connection fails: the pending await rejects.  The catch block of
\* fetchWithTimeout clears the timer (line 205); that of the OSV request
\* (lines 93-100) leaves it as it is.
TransportError ==
    /\ CallPending
    /\ call' = [call EXCEPT !.pc = "rejected",
                            !.timer = IF call.kind = "osv" THEN @ ELSE "cleared"]
    /\ UNCHANGED <<hook, sizeFetch, ui, reordered, deps, projectLicense, world, pc, depsToAnalyze, isLimited, sched,
                   distTagsMap, versionInfoMap, osv, osvVulnMap, vulnSource, thrownAt,
                   report>>

TimerDue == call.timer = "armed" /\ call.elapsed >= call.timeoutMs

\* The timer fires: controller.abort() rejects a pending fetch() or body read
\* and has no effect on a call that is over.
TimerFires ==
    /\ TimerDue
    /\ call' = [call EXCEPT !.timer = "fired",
                            !.pc = IF CallPending THEN "rejected" ELSE @]
    /\ UNCHANGED <<hook, sizeFetch, ui, reordered, deps, projectLicense, world, pc, depsToAnalyze, isLimited, sched,
                   distTagsMap, versionInfoMap, osv, osvVulnMap, vulnSource, thrownAt,
                   report>>

Tick ==
    /\ CallPending \/ call.timer = "armed"
    /\ ~TimerDue
    /\ call.elapsed < MaxTicks * TickMs
    /\ call' = [call EXCEPT !.elapsed = @ + TickMs]
    /\ UNCHANGED <<hook, sizeFetch, ui, reordered, deps, projectLicense, world, pc, depsToAnalyze, isLimited, sched,
                   distTagsMap, versionInfoMap, osv, osvVulnMap, vulnSource, thrownAt,
                   report>>

InitFetch ==
    /\ call \in {NewCall(kind) : kind \in CallKinds}
    /\ world = [dist |-> EmptyMap, meta |-> EmptyMap, osv |-> EmptyMap, generic |-> EmptyMap]
    /\ pc = "call"
    /\ sched = NoSched
    /\ deps = <<>>
    /\ projectLicense = None
    /\ HandlerLocals

NextFetch ==
    \/ CallStart
    \/ HeadersArrive
    \/ BodyArrives
    \/ TransportError
    \/ TimerFires
    \/ Tick

SpecFetch == InitFetch /\ [][NextFetch]_vars

\* C8: a call that has not resolved to a value or a failure has been running
\* for no longer than its timeout.
C8_ResolvesWithinTimeout == CallPending => call.elapsed <= call.timeoutMs

(***************************************************************************)
(* The handler on long dependency lists.  The two processWithConcurrency   *)
(* calls run to completion in one step; the OSV sub-batches and the result *)
(* loop are the steps of the fine-grained specification.                   *)
(***************************************************************************)
BulkOver == 1

BulkDup == 2

\* A list of n + 1 distinct keys, minimist@1.2.5 first or last among them,
\* followed by the first `dup` of them requested anew under another range.
BulkInput(n, leadLast, dup) ==
    LET lead == [name |-> Minimist, version |-> "1.2.5", requested |-> Some("^1.2.5")]
        distinct == IF leadLast THEN Append(Fillers(n), lead) ELSE <<lead>> \o Fillers(n)
    IN  distinct \o [k \in 1..dup |-> [distinct[k] EXCEPT !.requested = Some("~1.2.5")]]

\* Lists of two sub-batches, and lists around the cap.
ShortBulkInputs ==
    {BulkInput(BATCH_SIZE, leadLast, dup) : leadLast \in BOOLEAN, dup \in {0, BulkDup}}

LongBulkInputs ==
    {BulkInput(n, FALSE, dup) :
        n \in (MAX_PACKAGES - 2)..(MAX_PACKAGES - 1 + BulkOver), dup \in {0, BulkDup}}

BulkOsvFaults == {"throw", "non2xx", "clean", "long"}

\* Any outcome for each of the two sub-batches of a short list; the nominal
\* answers for a long one.
BulkWorlds(input) ==
    [dist : {EmptyMap}, meta : {EmptyMap}, generic : {EmptyMap},
     osv : IF input \in ShortBulkInputs
           THEN PartialFunctions(1..SubBatchCount(BATCH_SIZE + 1), BulkOsvFaults)
           ELSE {EmptyMap}]

InitBulk ==
    /\ deps \in ShortBulkInputs \cup LongBulkInputs
    /\ projectLicense = None
    /\ world \in BulkWorlds(deps)
    /\ HandlerStart

\* What processWithConcurrency returns: the values of the fulfilled
\* invocations in item order.
RunToCompletion(kind, items) ==
    LET outcomes == [k \in 1..Len(items) |-> Processor(kind, items[k])] \o <<>>
        fulfilled == SelectSeq([k \in 1..Len(items) |-> k], LAMBDA k : outcomes[k].ok)
    IN  [p \in 1..Len(fulfilled) |-> outcomes[fulfilled[p]].value] \o <<>>

\* Lines 306-372: dedupe and cap, the dist-tags lookups, the version-metadata
\* lookups, and the two lookup maps.
FetchAll ==
    /\ pc = "start"
    /\ \E toAnalyze \in {CapDeps(UniqueDeps(deps)) \o <<>>} :
          /\ depsToAnalyze' = toAnalyze
          /\ distTagsMap' = DistTagsMapOf(
                 RunToCompletion("distTags", UniquePackageNames(toAnalyze)))
          /\ versionInfoMap' = VersionInfoMapOf(RunToCompletion("versionInfo", toAnalyze))
    /\ isLimited' = IsLimited(UniqueDeps(deps))
    /\ osv' = [i |-> 0, results |-> EmptyMap]
    /\ pc' = "osv"
    /\ UNCHANGED <<hook, sizeFetch, ui, reordered, call, deps, projectLicense, world, sched, osvVulnMap, vulnSource,
                   thrownAt, report>>

NextBulk ==
    \/ FetchAll
    \/ OsvSubBatch
    \/ OsvReturn
    \/ ResultLoopAndReturn

SpecBulk == InitBulk /\ [][NextBulk]_vars

(***************************************************************************)
(* The handler on single dependencies that exercise one detector each, and *)
(* on lists that exercise the license summary.  The steps are those of     *)
(* the handler on long lists.                                              *)
(***************************************************************************)
NoFaults == [dist |-> EmptyMap, meta |-> EmptyMap, osv |-> EmptyMap, generic |-> EmptyMap]

Dep(name, version, requested) == [name |-> name, version |-> version, requested |-> requested]

ProjectLicenses ==
    {None, Some(<<>>), Some(MIT), Some(<<"m","i","t">>), Some(<<"B","S","D","-","3","-","C","l","a","u","s","e">>), Some(<<"A","p","a","c","h","e","-","2",".","0">>),
     Some(ISC), Some(GPL3), Some(UNKNOWN)}

\* One package per license of the registry, under any project license.
LicenseCases ==
    [deps : {<<Dep(name, "1.0.0", None)>> :
                name \in LicensedNames \cup {Reactt, Minimist, Filler(1).name}},
     projectLicense : ProjectLicenses,
     world : {NoFaults}]

TyposquatNames ==
    {<<"r","e","a","c","t","t">>,
     <<"r","e","a","c","t">>,
     <<"@","v","u","e">>,
     <<"v","u","e","e">>,
     <<"v","u">>,
     <<"j","e","x","t">>,
     <<"n","e","x">>,
     <<"@","m","y","o","r","g","/","r","e","a","c","t","t">>,
     <<"r","a","e","c","t">>,
     <<"R","e","a","c","t">>,
     <<"r","e","a","c","t","-","d","o">>,
     <<"e","x","p","r","e","s">>,
     <<"j","e","s","t","-","c","l","i">>,
     <<"a","x","i","o","s","-","j","s">>}

\* One package per name, its metadata fetched or not.
TyposquatCases ==
    UNION {[deps : {<<Dep(name, "1.0.0", None)>>},
            projectLicense : {None},
            world : {NoFaults,
                     [NoFaults EXCEPT !.meta = (Key(name, "1.0.0") :> "throw")]}] :
              name \in TyposquatNames}

UpdateNames == {Reactt, Minimist, Tar, AnsiRegex, NodeForge}

UpdateVersions == DOMAIN SemverVersions \cup {"0.10"}

UpdateRanges == {None, Some(""), Some("^1.2.5"), Some("~1.2.5"), Some("~1.2.0"), Some("workspace:*")}

\* One package per name (hence per latest version), current version and
\* requested range; the dist-tags and the metadata lookups succeed or fail.
UpdateCases ==
    UNION {[deps : {<<Dep(name, version, requested)>>},
            projectLicense : {None},
            world : [dist : {EmptyMap, name :> "throw"},
                     meta : {EmptyMap, Key(name, version) :> "throw"},
                     osv : {EmptyMap},
                     generic : {EmptyMap}]] :
              name \in UpdateNames, version \in UpdateVersions, requested \in UpdateRanges}

\* The package whose advisories carry every severity combination.
SeverityCases ==
    [deps : {<<Dep(UaParserJs, "1.0.0", None)>>},
     projectLicense : {None},
     world : {NoFaults}]

\* The packages of the registry by license: lic1, lic2, ..., then minimist
\* (MIT), pkg1 (ISC) and reactt (GPL-3.0).
SummaryPackages ==
    [i \in 1..Len(Licenses) |-> LicensedName(i)] \o <<Minimist, Filler(1).name, Reactt>>

\* The first m packages at 1.0.0, then `len` of them from index `from` at
\* 1.2.5, then the first `again` of those at 1.3.0.
SummaryInput(m, from, len, again) ==
    [i \in 1..m |-> Dep(SummaryPackages[i], "1.0.0", None)]
    \o [i \in 1..len |-> Dep(SummaryPackages[from + i - 1], "1.2.5", None)]
    \o [i \in 1..again |-> Dep(SummaryPackages[from + i - 1], "1.3.0", None)]

SummaryCases ==
    [deps : {SummaryInput(m, from, len, again) :
                m \in {2, 11, 13, Len(SummaryPackages)},
                from \in {1, 2, 9, 12},
                len \in {0, 1, 2, 5},
                again \in {0, 1}} \ {<<>>},
     projectLicense : {None},
     world : {NoFaults}]

\* Lists of three catalog entries, repeated entries among them.
RepeatCases ==
    [deps : [1..3 -> PackageCatalog],
     projectLicense : {None, Some(MIT)},
     world : {NoFaults}]

DetectCases ==
    LicenseCases \cup TyposquatCases \cup UpdateCases \cup SeverityCases \cup SummaryCases
        \cup RepeatCases

InitDetect ==
    /\ \E c \in DetectCases :
          /\ deps = c.deps
          /\ projectLicense = c.projectLicense
          /\ world = c.world
    /\ HandlerStart

SpecDetect == InitDetect /\ [][NextBulk]_vars

(***************************************************************************)
(* The usePackageAnalyzer hook (part_002) around the handler: the debounce  *)
(* timer calls analyze, the report is shown, the package sizes are fetched *)
(* and the results sorted and grouped (npmRegistry.ts), the grouping can   *)
(* be toggled, and "copy all fixes" can be pressed at any moment.  A       *)
(* toggle is taken between analyses.                                       *)
(***************************************************************************)
MaxToggles == 2

SIZE_THRESHOLD == 500 * 1024

\* The sizes fetchPackageSize can give a package: 0 when the fetch failed.
PackageSizes == {0, 100 * 1024, 600 * 1024}

\* A Result as the hook holds it: `size` is absent until the sizes arrive.
Sized(result, size) ==
    [name |-> result.name, version |-> result.version, requested |-> result.requested,
     latest |-> result.latest, license |-> result.license, issues |-> result.issues,
     size |-> size]

SizeOrZero(result) == IF IsSome(result.size) THEN result.size[1] ELSE 0

\* results.sort((a, b) => (b.size || 0) - (a.size || 0)), a stable sort.
SortBySize(results) ==
    LET rank(p) == Cardinality({q \in 1..Len(results) :
                        \/ SizeOrZero(results[q]) > SizeOrZero(results[p])
                        \/ SizeOrZero(results[q]) = SizeOrZero(results[p]) /\ q < p}) + 1
    IN  [r \in 1..Len(results) |-> results[CHOOSE p \in 1..Len(results) : rank(p) = r]]

\* fetchPackageSizes (npmRegistry.ts, lines 124-142): sizes[k] is the size
\* of results[k].
fetchPackageSizes(results, sizes) ==
    SortBySize([k \in 1..Len(results) |-> Sized(results[k], Some(sizes[k]))])

\* smallPackages.flatMap(pkg => pkg.issues)
RECURSIVE FlatIssues(_)
FlatIssues(results) ==
    IF results = <<>> THEN <<>> ELSE Head(results).issues \o FlatIssues(Tail(results))

\* A grouping that keeps the large packages and drops the small ones.
LargePackagesOnly(results) ==
    SelectSeq(results, LAMBDA r : SizeOrZero(r) >= SIZE_THRESHOLD)

\* groupSmallPackages (npmRegistry.ts, lines 147-195).
groupSmallPackages(results) ==
    LET largePackages == SelectSeq(results, LAMBDA r : SizeOrZero(r) >= SIZE_THRESHOLD)
        smallPackages == SelectSeq(results, LAMBDA r : SizeOrZero(r) < SIZE_THRESHOLD)
        totalIssues == FlatIssues(smallPackages)
        ofLevel(level) == SelectSeq(totalIssues, LAMBDA issue : issue.level = level)
        licenses == {smallPackages[k].license : k \in 1..Len(smallPackages)} \ {<<>>}
        totalSmallSize == LET sum[k \in 0..Len(smallPackages)] ==
                                  IF k = 0 THEN 0
                                  ELSE sum[k - 1] + SizeOrZero(smallPackages[k])
                          IN  sum[Len(smallPackages)]
        othersPackage ==
            [name |-> <<"O","t","h","e","r","s"," ","(">> \o Digits(Len(smallPackages)) \o <<" ","p","a","c","k","a","g","e","s",")">>,
             version |-> "mixed",
             requested |-> None,
             latest |-> None,
             license |-> Digits(Cardinality(licenses)) \o <<" ","d","i","f","f","e","r","e","n","t"," ","l","i","c","e","n","s","e","s">>,
             issues |-> Slice(ofLevel("critical"), 0, 5)
                        \o Slice(ofLevel("warning"), 0, 10)
                        \o Slice(ofLevel("info"), 0, 5),
             size |-> Some(totalSmallSize)]
    IN  IF Len(smallPackages) > 1
        THEN Append(largePackages, othersPackage)
        ELSE largePackages \o smallPackages

\* .join(" ")
RECURSIVE JoinWithSpaces(_)
JoinWithSpaces(strings) ==
    IF strings = <<>> THEN ""
    ELSE IF Len(strings) = 1 THEN strings[1]
    ELSE strings[1] \o " " \o JoinWithSpaces(Tail(strings))

\* Lines 138-142 of part_002: the fixes of the issues of the results, joined.
FixesOf(results) ==
    LET withFix == SelectSeq(FlatIssues(results),
                             LAMBDA issue : IsSome(issue.fix) /\ issue.fix[1] # "")
    IN  JoinWithSpaces([k \in 1..Len(withFix) |-> withFix[k].fix[1]])

\* Lines 94-96 and 124-126: the results shown for a report with sizes.
ShownResults(results, groupEnabled) ==
    IF groupEnabled THEN groupSmallPackages(results) ELSE results

\* The user enters a package file whose dependency list is not empty: the
\* effect of lines 60-119 sets the debounce timer.
UiSetPackageText ==
    /\ pc = "waiting"
    /\ ui.pc = "idle"
    /\ deps # <<>>
    /\ ui' = [ui EXCEPT !.pc = "debounce"]
    /\ UNCHANGED <<hook, sizeFetch, reordered, call, deps, projectLicense, world, pc, depsToAnalyze,
                   isLimited, sched, distTagsMap, versionInfoMap, osv, osvVulnMap,
                   vulnSource, thrownAt, report>>

\* Lines 67-75: the timer fires and analyze is called.
UiAnalyze ==
    /\ ui.pc = "debounce"
    /\ ui' = [ui EXCEPT !.pc = "analyzing"]
    /\ pc' = "start"
    /\ depsToAnalyze' = <<>>
    /\ isLimited' = FALSE
    /\ distTagsMap' = EmptyMap
    /\ versionInfoMap' = EmptyMap
    /\ osv' = [i |-> 0, results |-> EmptyMap]
    /\ osvVulnMap' = EmptyMap
    /\ vulnSource' = "fallback"
    /\ thrownAt' = 0
    /\ report' = None
    /\ UNCHANGED <<hook, sizeFetch, reordered, call, deps, projectLicense, world, sched>>

\* Lines 78-82: the report is shown without sizes and the size fetch starts.
UiAnalysisReturns ==
    /\ ui.pc = "analyzing"
    /\ pc = "done"
    /\ ui' = [ui EXCEPT
                !.report = Some([report[1] EXCEPT !.results =
                                    [k \in 1..Len(report[1].results) |->
                                        Sized(report[1].results[k], None)]]),
                !.pc = "fetchingSizes"]
    /\ UNCHANGED <<hook, sizeFetch, reordered, call, deps, projectLicense, world, pc, depsToAnalyze,
                   isLimited, sched, distTagsMap, versionInfoMap, osv, osvVulnMap,
                   vulnSource, thrownAt, report>>

\* Lines 108-111: analyze rejected.
UiAnalysisFails ==
    /\ ui.pc = "analyzing"
    /\ pc = "thrown"
    /\ ui' = [ui EXCEPT !.report = None, !.pc = "idle"]
    /\ UNCHANGED <<hook, sizeFetch, reordered, call, deps, projectLicense, world, pc, depsToAnalyze,
                   isLimited, sched, distTagsMap, versionInfoMap, osv, osvVulnMap,
                   vulnSource, thrownAt, report>>

\* Lines 84-101: the sizes arrive (fetchPackageSize caches them per
\* name@version, so a later analysis gets the same sizes); the raw report is
\* stored and the shown report sorted by size and grouped.
UiSizesArrive ==
    /\ ui.pc = "fetchingSizes"
    /\ \E sizes \in [1..Len(report[1].results) -> PackageSizes] :
          /\ \A k \in 1..Len(sizes) :
                DepKey(report[1].results[k]) \in DOMAIN ui.sizeCache =>
                    sizes[k] = ui.sizeCache[DepKey(report[1].results[k])]
          /\ \E resultsWithSizes \in {fetchPackageSizes(report[1].results, sizes)} :
                ui' = [ui EXCEPT
                         !.sizeCache = [k \in {DepKey(report[1].results[i]) :
                                                  i \in 1..Len(sizes)} |->
                                          sizes[CHOOSE i \in 1..Len(sizes) :
                                                   DepKey(report[1].results[i]) = k]],
                         !.rawReport = Some([report[1] EXCEPT !.results = resultsWithSizes]),
                         !.report = Some([report[1] EXCEPT !.results =
                                             ShownResults(resultsWithSizes,
                                                          ui.groupSmallPackagesEnabled)]),
                         !.pc = "idle"]
    /\ UNCHANGED <<hook, sizeFetch, reordered, call, deps, projectLicense, world, pc, depsToAnalyze,
                   isLimited, sched, distTagsMap, versionInfoMap, osv, osvVulnMap,
                   vulnSource, thrownAt, report>>

\* The user toggles the grouping: the effect of lines 122-133 regroups the
\* raw report, and the effect of lines 60-119, which depends on the flag,
\* sets the debounce timer anew.
UiToggleGrouping ==
    /\ ui.pc = "idle"
    /\ pc \in {"done", "thrown"}
    /\ ui.toggles < MaxToggles
    /\ ui' = [ui EXCEPT
                !.groupSmallPackagesEnabled = ~@,
                !.toggles = @ + 1,
                !.report = IF IsSome(ui.rawReport)
                           THEN Some([ui.rawReport[1] EXCEPT !.results =
                                        ShownResults(ui.rawReport[1].results,
                                                     ~ui.groupSmallPackagesEnabled)])
                           ELSE @,
                !.pc = "debounce"]
    /\ UNCHANGED <<hook, sizeFetch, reordered, call, deps, projectLicense, world, pc, depsToAnalyze,
                   isLimited, sched, distTagsMap, versionInfoMap, osv, osvVulnMap,
                   vulnSource, thrownAt, report>>

\* copyAllFixes (part_002, lines 135-151).
copyAllFixes ==
    /\ pc # "waiting"
    /\ IsSome(ui.report)
    /\ FixesOf(ui.report[1].results) # ""
    /\ ui' = [ui EXCEPT !.clipboard = Some(FixesOf(ui.report[1].results))]
    /\ UNCHANGED <<hook, sizeFetch, reordered, call, deps, projectLicense, world, pc, depsToAnalyze,
                   isLimited, sched, distTagsMap, versionInfoMap, osv, osvVulnMap,
                   vulnSource, thrownAt, report>>

InitUi ==
    /\ deps \in Inputs
    /\ projectLicense \in {None, Some(MIT)}
    /\ world \in {NoFaults, [NoFaults EXCEPT !.osv = <<"bare">>]}
    /\ pc = "waiting"
    /\ sched = NoSched
    /\ call = NoCall
    /\ HandlerLocals

NextUi ==
    \/ UiSetPackageText
    \/ UiAnalyze
    \/ FetchAll
    \/ OsvSubBatch
    \/ OsvReturn
    \/ ResultLoopAndReturn
    \/ UiAnalysisReturns
    \/ UiAnalysisFails
    \/ UiSizesArrive
    \/ UiToggleGrouping
    \/ copyAllFixes

SpecUi == InitUi /\ [][NextUi]_vars

(***************************************************************************)
(* Properties of the handler                                               *)
(***************************************************************************)
Returned == pc = "done"

Results == report[1].results

AllIssues ==
    IF Returned
    THEN UNION {{<<i, k>> : k \in 1..Len(Results[i].issues)} : i \in 1..Len(Results)}
    ELSE {}

IssueAt(ik) == Results[ik[1]].issues[ik[2]]

\* The outcome of the version-metadata fetch and of the OSV sub-batch fetch of
\* the analysed dependency at index i.
MetaOutcome(i) == OutcomeOf(world.meta, DepKey(depsToAnalyze[i]))

OsvOutcome(i) == OutcomeOf(world.osv, (i - 1) \div BATCH_SIZE + 1)

\* Every sub-batch request fails: transport error, timeout or non-2xx.
OsvUnreachable ==
    /\ depsToAnalyze # <<>>
    /\ \A i \in 1..Len(depsToAnalyze) : OsvOutcome(i) \in {"throw", "non2xx"}

\* C1: the results are the first occurrences of the distinct name@version
\* keys of the input, in input order, cut to the first 600; count is their
\* number and isLimited tells whether there were more than 600 distinct keys.
C1_DedupeAndCap ==
    Returned =>
        LET keys == [i \in 1..Len(deps) |-> Str(deps[i].name) \o "@" \o deps[i].version] \o <<>>
            firsts == {i \in 1..Len(deps) : \A j \in 1..(i - 1) : keys[j] # keys[i]}
            distinctCount == Cardinality(firsts)
        IN  /\ Len(Results) = Min(distinctCount, 600)
            /\ \A i \in firsts :
                  LET p == Cardinality({j \in firsts : j <= i})
                  IN  p <= 600 =>
                        /\ Results[p].name = deps[i].name
                        /\ Results[p].version = deps[i].version
                        /\ Results[p].requested = deps[i].requested
            /\ report[1].count = Min(distinctCount, 600)
            /\ report[1].isLimited <=> distinctCount > 600

C1_CappedWithDuplicates ==
    /\ Returned
    /\ report[1].isLimited
    /\ report[1].count = 600
    /\ Len(deps) > 601
    /\ \E i \in 1..Len(deps) : \E j \in 1..Len(deps) :
          i < j /\ DepKey(deps[i]) = DepKey(deps[j]) /\ deps[i] # deps[j]

\* An OSV sub-batch request that returned successfully with one result per
\* query.
OsvBatchSucceeded(b) == OutcomeOf(world.osv, b) \in {"ok", "clean", "bare", "long"}

\* C2: when some OSV sub-batch request succeeded, no Result holds an issue
\* made from the fallback table.
C2_NoFallbackAfterAnySuccess ==
    (Returned /\ \E b \in 1..SubBatchCount(Len(depsToAnalyze)) : OsvBatchSucceeded(b)) =>
        \A i \in 1..Len(Results) :
            \A k \in 1..Len(Results[i].issues) :
                Results[i].issues[k] \notin Range(FallbackIssues(depsToAnalyze[i]))

C2_FailedBatchBesideSuccess ==
    /\ Returned
    /\ \E i \in 1..Len(depsToAnalyze) :
          /\ FallbackIssues(depsToAnalyze[i]) # <<>>
          /\ OsvOutcome(i) \in {"throw", "non2xx"}
          /\ Results[i].issues # <<>>
          /\ \A k \in 1..Len(Results[i].issues) : Results[i].issues[k].kind # "vuln"
    /\ \E b \in 1..SubBatchCount(Len(depsToAnalyze)) : OutcomeOf(world.osv, b) = "clean"

\* C3: when every OSV sub-batch request fails, each analysed dependency whose
\* metadata lookup succeeded and whose version satisfies a fallback entry's
\* range has that entry's critical vuln issue, and the score is C.
C3_FallbackWhenUnreachable ==
    (Returned /\ OsvUnreachable) =>
        \A i \in 1..Len(depsToAnalyze) :
            LET d == depsToAnalyze[i]
                expected == FallbackIssues(d)
            IN  (MetaOutcome(i) # "throw" /\ expected # <<>>) =>
                    /\ \A k \in 1..Len(expected) :
                          expected[k] \in Range(Results[i].issues)
                    /\ report[1].score = "C"

\* C4: the score is C exactly when some issue is critical, B exactly when
\* none is critical and some is a warning, A exactly when none is either.
AnyIssueOfLevel(level) == \E ik \in AllIssues : IssueAt(ik).level = level

C4_ScoreIff ==
    Returned =>
        /\ report[1].score = "C" <=> AnyIssueOfLevel("critical")
        /\ report[1].score = "B" <=>
                (~AnyIssueOfLevel("critical") /\ AnyIssueOfLevel("warning"))
        /\ report[1].score = "A" <=>
                (~AnyIssueOfLevel("critical") /\ ~AnyIssueOfLevel("warning"))

C4_ScoreB_Reached ==
    /\ Returned
    /\ report[1].score = "B"
    /\ AnyIssueOfLevel("warning")
    /\ AnyIssueOfLevel("info")

\* C5: within a Result the issues follow the detector order deprecated,
\* scripts, license, vuln, typosquat, update.
DetectorRank(kind) ==
    CASE kind = "meta" -> 0
      [] kind = "deprecated" -> 1
      [] kind = "scripts" -> 2
      [] kind = "license" -> 3
      [] kind = "vuln" -> 4
      [] kind = "typosquat" -> 5
      [] kind = "update" -> 6

C5_DetectorOrder ==
    \A ik \in AllIssues : \A jl \in AllIssues :
        (ik[1] = jl[1] /\ ik[2] < jl[2]) =>
            DetectorRank(IssueAt(ik).kind) <= DetectorRank(IssueAt(jl).kind)

C5_AllDetectorsFired ==
    /\ Returned
    /\ \E i \in 1..Len(Results) :
          {Results[i].issues[k].kind : k \in 1..Len(Results[i].issues)}
              = {"deprecated", "scripts", "license", "vuln", "typosquat", "update"}

\* C9: the handler never throws, whatever the services answer.
C9_NeverThrows == pc # "thrown"

\* C10: a dependency whose version-metadata fetch threw has the single
\* meta/info issue and license UNKNOWN in the report, every analysed
\* dependency has its Result, and when the handler does throw, it throws at a
\* dependency whose metadata fetch did not fail.
C10_MetaFailureNotFatal ==
    /\ Returned =>
          /\ Len(Results) = Len(depsToAnalyze)
          /\ \A i \in 1..Len(depsToAnalyze) :
                /\ Results[i].name = depsToAnalyze[i].name
                /\ Results[i].version = depsToAnalyze[i].version
                /\ MetaOutcome(i) = "throw" =>
                      /\ Results[i].issues = <<MetaIssue>>
                      /\ Results[i].license = UNKNOWN
    /\ pc = "thrown" =>
          /\ thrownAt \in 1..Len(depsToAnalyze)
          /\ MetaOutcome(thrownAt) # "throw"

C10_FailedAmongOthers ==
    /\ Returned
    /\ \E i \in 1..Len(Results) : \E j \in 1..Len(Results) :
          /\ MetaOutcome(i) = "throw"
          /\ Results[i].issues = <<MetaIssue>>
          /\ MetaOutcome(j) = "ok"
          /\ \E k \in 1..Len(Results[j].issues) : Results[j].issues[k].kind = "vuln"

DistOutcome(i) == OutcomeOf(world.dist, depsToAnalyze[i].name)

\* C11: a non-2xx answer to a version-metadata lookup is a failed lookup (the
\* Result carries the single meta/info issue and license UNKNOWN, as after a
\* transport error), and a non-2xx answer to a dist-tags lookup yields no
\* latest version.
C11_Non2xxIsFailedLookup ==
    Returned =>
        \A i \in 1..Len(Results) :
            /\ MetaOutcome(i) = "non2xx" =>
                  /\ Results[i].issues = <<MetaIssue>>
                  /\ Results[i].license = UNKNOWN
            /\ DistOutcome(i) = "non2xx" => Results[i].latest = None

\* The dependency at index i has its version metadata (no failure marker).
MetaFetched(i) ==
    /\ DepKey(depsToAnalyze[i]) \in DOMAIN versionInfoMap
    /\ ~versionInfoMap[DepKey(depsToAnalyze[i])].error

VulnIssuesOf(i) == SelectSeq(Results[i].issues, LAMBDA issue : issue.kind = "vuln")

\* The CVSS v3 numeric score of an advisory, in tenths, when it has one.
NumericV3Score(vuln) ==
    IF /\ IsSome(vuln.severity)
       /\ vuln.severity[1] # <<>>
       /\ vuln.severity[1][1].type = "CVSS_V3"
    THEN ParseFloatTenths(vuln.severity[1][1].score)
    ELSE None

\* The level the severity rule gives an advisory: by its CVSS v3 numeric
\* score when it has one, else by its textual severity when it has one, else
\* warning.
LevelBySeverityRule(vuln) ==
    IF IsSome(NumericV3Score(vuln))
    THEN IF NumericV3Score(vuln)[1] >= 70 THEN "critical"
         ELSE IF NumericV3Score(vuln)[1] >= 40 THEN "warning"
         ELSE "info"
    ELSE IF IsSome(vuln.dbSeverity) /\ vuln.dbSeverity[1] # <<>>
    THEN IF vuln.dbSeverity[1] \in {<<"C","R","I","T","I","C","A","L">>, <<"H","I","G","H">>}
         THEN "critical"
         ELSE IF vuln.dbSeverity[1] = <<"M","E","D","I","U","M">> THEN "warning"
         ELSE "info"
    ELSE "warning"

\* C12: every advisory of the live path yields a vuln issue whose level is
\* derived from the advisory's CVSS v3 numeric score when it has one (7.0 and
\* above critical, 4.0 and above warning, lower info), otherwise from its
\* textual severity when it has one (critical and high give critical, medium
\* warning, anything else info), otherwise warning.
C12_LevelFromSeverity ==
    Returned =>
        \A i \in 1..Len(Results) :
            LET osvVulns == OsvVulnsOf(depsToAnalyze[i], osvVulnMap)
            IN  (MetaFetched(i) /\ osvVulns # <<>>) =>
                    /\ Len(VulnIssuesOf(i)) = Len(osvVulns)
                    /\ \A k \in 1..Len(osvVulns) :
                          VulnIssuesOf(i)[k].level = LevelBySeverityRule(osvVulns[k])

LicenseIssuesOf(i) == SelectSeq(Results[i].issues, LAMBDA issue : issue.kind = "license")

ProjectLicenseHas(word) ==
    IsSome(projectLicense) /\ Includes(ToUpperCase(projectLicense[1]), word)

ProjectPermissive ==
    ProjectLicenseHas(MIT) \/ ProjectLicenseHas(BSD) \/ ProjectLicenseHas(APACHE)

LicenseHas(i, word) == Includes(ToUpperCase(Results[i].license), word)

\* The levels of the license issues of the Result at index i are `levels`.
LicenseLevelsAre(i, levels) ==
    /\ Len(LicenseIssuesOf(i)) = Len(levels)
    /\ \A k \in 1..Len(levels) : LicenseIssuesOf(i)[k].level = levels[k]

\* C13 as stated: with fetched metadata, a permissive project license (MIT,
\* BSD, APACHE) and a dependency license containing GPL but not LGPL give
\* exactly one license warning; otherwise a project license containing MIT
\* and a dependency license containing LGPL give exactly one license info;
\* every other case gives no license issue.
C13_LicenseIssueAsStated ==
    Returned =>
        \A i \in 1..Len(Results) :
            MetaFetched(i) =>
                IF ProjectPermissive /\ LicenseHas(i, GPL) /\ ~LicenseHas(i, LGPL)
                THEN LicenseLevelsAre(i, <<"warning">>)
                ELSE IF ProjectLicenseHas(MIT) /\ LicenseHas(i, LGPL)
                THEN LicenseLevelsAre(i, <<"info">>)
                ELSE LicenseLevelsAre(i, <<>>)

\* C13, amended: the warning is also given when the project license is
\* permissive and the dependency license contains AGPL, even beside LGPL
\* (as in "(LGPL-3.0 OR AGPL-3.0)"); the info case applies only when no
\* warning does.
C13_LicenseIssue ==
    Returned =>
        \A i \in 1..Len(Results) :
            MetaFetched(i) =>
                IF /\ ProjectPermissive
                   /\ \/ LicenseHas(i, GPL) /\ ~LicenseHas(i, LGPL)
                      \/ LicenseHas(i, AGPL)
                THEN LicenseLevelsAre(i, <<"warning">>)
                ELSE IF ProjectLicenseHas(MIT) /\ LicenseHas(i, LGPL)
                THEN LicenseLevelsAre(i, <<"info">>)
                ELSE LicenseLevelsAre(i, <<>>)

C13_DualLicenseWarned ==
    /\ Returned
    /\ ProjectLicenseHas(BSD)
    /\ \E i \in 1..Len(Results) :
          /\ LicenseHas(i, LGPL)
          /\ LicenseHas(i, AGPL)
          /\ LicenseLevelsAre(i, <<"warning">>)

TyposquatIssuesOf(i) == SelectSeq(Results[i].issues, LAMBDA issue : issue.kind = "typosquat")

\* a is b with the character at position p removed.
IsDeletionOf(a, b) ==
    /\ Len(b) = Len(a) + 1
    /\ \E p \in 1..Len(b) : a = SubSeq(b, 1, p - 1) \o SubSeq(b, p + 1, Len(b))

\* One unit-cost insertion, deletion or substitution turns a into b.
OneEditApart(a, b) ==
    \/ IsDeletionOf(a, b)
    \/ IsDeletionOf(b, a)
    \/ /\ Len(a) = Len(b)
       /\ Cardinality({p \in 1..Len(a) : a[p] # b[p]}) = 1

NearReferences(name) == {k \in 1..Len(topPackages) : OneEditApart(name, topPackages[k])}

EndsInConventionalSuffix(name) ==
    \E suffix \in {<<"-","j","s">>, <<"-","t","s">>, <<"-","n","o","d","e">>,
                   <<"-","n","p","m">>, <<"-","c","l","i">>, <<"-","l","i","b">>,
                   <<"-","u","t","i","l">>, <<"-","u","t","i","l","s">>,
                   <<"-","c","o","r","e">>, <<"-","a","p","i">>} :
        EndsWith(ToLowerCase(name), suffix)

\* C14: a dependency with fetched metadata has a typosquat warning iff its
\* name is one edit away from some reference name, ends in no conventional
\* suffix and does not start with "@"; it has at most one, naming the first
\* such reference name in list order.
C14_TyposquatIff ==
    Returned =>
        \A i \in 1..Len(Results) :
            MetaFetched(i) =>
                LET name == Results[i].name
                    near == NearReferences(name)
                IN  IF /\ near # {}
                       /\ ~EndsInConventionalSuffix(name)
                       /\ (name = <<>> \/ name[1] # "@")
                    THEN LET first == CHOOSE k \in near : \A j \in near : k <= j
                         IN  TyposquatIssuesOf(i) =
                                <<[level |-> "warning", kind |-> "typosquat",
                                   msg |-> "Similar to \"" \o Str(topPackages[first]) \o "\"",
                                   fix |-> None]>>
                    ELSE TyposquatIssuesOf(i) = <<>>

\* jext is one edit from both next and jest and is reported as similar to
\* next; @vue is one edit from vue and is not reported.
C14_FirstOfTwoReferences ==
    /\ Returned
    /\ \E i \in 1..Len(Results) :
          /\ Cardinality(NearReferences(Results[i].name)) = 2
          /\ Len(TyposquatIssuesOf(i)) = 1
          /\ TyposquatIssuesOf(i)[1].msg = "Similar to \"next\""

UpdateIssuesOf(i) == SelectSeq(Results[i].issues, LAMBDA issue : issue.kind = "update")

\* Two valid versions whose diff is patch or minor: releases of the same
\* major that differ.
PatchOrMinorApart(a, b) ==
    /\ a \in DOMAIN SemverVersions \ SemverPrereleases
    /\ b \in DOMAIN SemverVersions \ SemverPrereleases
    /\ SemverVersions[a][1] = SemverVersions[b][1]
    /\ SemverVersions[a] # SemverVersions[b]

\* The conditions of the update suggestion for the Result at index i.
UpdateDue(i) ==
    LET r == Results[i]
    IN  /\ IsSome(r.latest)
        /\ r.latest[1] # r.version
        /\ PatchOrMinorApart(r.version, r.latest[1])
        /\ (IsSome(r.requested) /\ r.requested[1] # "") =>
              SemverSatisfies(r.latest[1], r.requested[1])

\* The Result at index i has the one update issue when due, none otherwise.
UpdateIssueIffDue(i) ==
    IF UpdateDue(i)
    THEN /\ Len(UpdateIssuesOf(i)) = 1
         /\ UpdateIssuesOf(i)[1].level = "info"
         /\ UpdateIssuesOf(i)[1].fix = Some(Key(Results[i].name, Results[i].latest[1]))
    ELSE UpdateIssuesOf(i) = <<>>

\* C15 as stated: a dependency has an update issue (info, fix name@latest)
\* iff a latest version was resolved, differs from the current one, both are
\* valid, their diff is patch or minor, and the latest satisfies the
\* requested range when there is one.
C15_UpdateIffAsStated ==
    Returned => \A i \in 1..Len(Results) : UpdateIssueIffDue(i)

\* C15, amended: the equivalence holds for the dependencies whose version
\* metadata was fetched; one whose metadata lookup failed has no update
\* issue.
C15_UpdateIff ==
    Returned =>
        \A i \in 1..Len(Results) :
            IF MetaFetched(i) THEN UpdateIssueIffDue(i) ELSE UpdateIssuesOf(i) = <<>>

\* 1.2.3 with latest 1.3.0 and no range is offered reactt@1.3.0.
C15_MinorUpdateOffered ==
    /\ Returned
    /\ \E i \in 1..Len(Results) :
          /\ Results[i].version = "1.2.3"
          /\ Results[i].latest = Some("1.3.0")
          /\ Results[i].requested = None
          /\ Len(UpdateIssuesOf(i)) = 1
          /\ UpdateIssuesOf(i)[1].fix = Some("reactt@1.3.0")

\* The number of Results with a license, and the index of the first of them.
LicenseCount(l) == Cardinality({i \in 1..Len(Results) : Results[i].license = l})

FirstSeen(l) ==
    CHOOSE i \in 1..Len(Results) :
        /\ Results[i].license = l
        /\ \A j \in 1..(i - 1) : Results[j].license # l

\* License a ranks before license b: more Results, or as many and seen first.
RanksBefore(a, b) ==
    \/ LicenseCount(a) > LicenseCount(b)
    \/ LicenseCount(a) = LicenseCount(b) /\ FirstSeen(a) < FirstSeen(b)

\* C16: topLicenses never lists UNKNOWN, gives each listed license the number
\* of Results with it, has at most 10 entries in rank order (count
\* descending, ties in first-seen order), and leaves a license out only when
\* 10 licenses rank before it.
C16_TopLicenses ==
    Returned =>
        LET top == report[1].topLicenses
            listed == {top[p].license : p \in 1..Len(top)}
            known == {Results[i].license : i \in 1..Len(Results)} \ {UNKNOWN}
        IN  /\ Len(top) <= 10
            /\ listed \subseteq known
            /\ \A p \in 1..Len(top) : top[p].count = LicenseCount(top[p].license)
            /\ \A p \in 1..Len(top) : \A q \in (p + 1)..Len(top) :
                  RanksBefore(top[p].license, top[q].license)
            /\ \A l \in known \ listed :
                  /\ Len(top) = 10
                  /\ \A p \in 1..Len(top) : RanksBefore(top[p].license, l)

\* More than ten licenses, one of them cut, a later-seen license sorted
\* ahead of an earlier one, and a tie kept in first-seen order.
C16_CutAndReordered ==
    /\ Returned
    /\ LET top == report[1].topLicenses
       IN  /\ Len(top) = 10
           /\ \E i \in 1..Len(Results) :
                 /\ Results[i].license # UNKNOWN
                 /\ \A p \in 1..Len(top) : top[p].license # Results[i].license
           /\ \E i \in 1..Len(Results) : Results[i].license = UNKNOWN
           /\ \E p \in 1..Len(top) : \E q \in (p + 1)..Len(top) :
                 FirstSeen(top[p].license) > FirstSeen(top[q].license)
           /\ \E p \in 1..Len(top) : \E q \in (p + 1)..Len(top) :
                 top[p].count = top[q].count

\* The number of issues of a level in the first i Results.
RECURSIVE LevelTally(_, _)
LevelTally(i, level) ==
    IF i = 0 THEN 0
    ELSE LevelTally(i - 1, level)
         + Len(SelectSeq(Results[i].issues, LAMBDA issue : issue.level = level))

\* C17: criticalCount, warningCount and infoCount are the numbers of issues
\* of each level over all Results, they add up to the number of issues, and
\* total is the length of the raw input list, duplicates included.
C17_CountsAndTotal ==
    Returned =>
        /\ report[1].criticalCount = LevelTally(Len(Results), "critical")
        /\ report[1].warningCount = LevelTally(Len(Results), "warning")
        /\ report[1].infoCount = LevelTally(Len(Results), "info")
        /\ report[1].criticalCount + report[1].warningCount + report[1].infoCount
              = Cardinality(AllIssues)
        /\ report[1].total = Len(deps)

\* Issues of all three levels, several of one level in one Result, and a
\* duplicate in the input.
C17_AllLevelsWithDuplicate ==
    /\ Returned
    /\ report[1].criticalCount > 0
    /\ report[1].infoCount > 0
    /\ report[1].warningCount > Len(Results)
    /\ report[1].total > report[1].count

\* C18: for an empty dependency list the handler makes no dist-tags, metadata
\* or OSV request, does not throw, and returns the empty report: no results,
\* count 0, total 0, isLimited false, all three counts 0, no top licenses,
\* score A.
C18_EmptyInput ==
    deps = <<>> =>
        /\ pc # "thrown"
        /\ sched.calls = <<>>
        /\ sched.window = <<>>
        /\ osv = [i |-> 0, results |-> EmptyMap]
        /\ Returned =>
              /\ report[1].results = <<>>
              /\ report[1].count = 0
              /\ report[1].total = 0
              /\ report[1].isLimited = FALSE
              /\ report[1].criticalCount = 0
              /\ report[1].warningCount = 0
              /\ report[1].infoCount = 0
              /\ report[1].topLicenses = <<>>
              /\ report[1].score = "A"

C18_EmptyReportReturned ==
    /\ deps = <<>>
    /\ Returned
    /\ report[1].results = <<>>
    /\ report[1].score = "A"

\* The handler's outcome as a function of its arguments and of the services'
\* answers alone: every lookup answered in item order.
RECURSIVE OsvQueryAll(_, _, _)
OsvQueryAll(results, packages, i) ==
    IF ~OsvLoopContinues(i, Len(packages)) THEN results
    ELSE OsvQueryAll(OsvSubBatchResults(results, Slice(packages, i, BATCH_SIZE),
                                        OutcomeOf(world.osv, i \div BATCH_SIZE + 1)),
                     packages, i + BATCH_SIZE)

OutcomeInItemOrder ==
    CHOOSE outcome \in
        {[thrownAt |-> loop.thrownAt,
          report |-> IF loop.thrownAt # 0 THEN None
                     ELSE Some(BuildReport(deps, projectLicense, IsLimited(UniqueDeps(deps)),
                                           "osv", loop.results))] :
            loop \in UNION {
                {ResultLoop(toAnalyze, infoMap, tagsMap, vulnMap, projectLicense) :
                    tagsMap \in {DistTagsMapOf(
                                    RunToCompletion("distTags", UniquePackageNames(toAnalyze)))},
                    infoMap \in {VersionInfoMapOf(RunToCompletion("versionInfo", toAnalyze))},
                    vulnMap \in {OsvQueryAll(EmptyMap, toAnalyze, 0)}} :
                toAnalyze \in {CapDeps(UniqueDeps(deps)) \o <<>>}}} : TRUE

\* C19: the report (or the failure) of a run is determined by the input and
\* the services' answers; the order in which the lookups of a window
\* complete does not show in it.
C19_Deterministic ==
    pc \in {"done", "thrown"} =>
        \E outcome \in {OutcomeInItemOrder} :
            /\ report = outcome.report
            /\ thrownAt = outcome.thrownAt

\* A report of two Results returned by a run in which a lookup completed
\* before an earlier one of its window.
C19_ReturnedAfterReordering ==
    /\ Returned
    /\ reordered
    /\ Len(Results) = 2
    /\ Results[1].latest # Results[2].latest

\* C20: what "copy all fixes" has put on the clipboard is the space-joined
\* sequence of the fixes of the Results the analysis returned, in result and
\* issue order, whether or not the sizes have arrived and whether or not the
\* small packages are grouped.
C20_CopiesEveryFixInOrder ==
    IsSome(ui.clipboard) =>
        \E outcome \in {OutcomeInItemOrder} :
            /\ IsSome(outcome.report)
            /\ ui.clipboard[1] = FixesOf(outcome.report[1].results)

\* The query has returned its result map to the handler.
OsvQueried == pc \in {"results", "done", "thrown"}

\* C21: once queryOSVVulnerabilitiesBatch has returned, its result map holds
\* an empty advisory list for every item of every sub-batch whose request
\* failed (it threw, timed out, or was answered non-2xx).
C21_FailedSubBatchMappedToEmpty ==
    OsvQueried =>
        \A i \in 1..Len(depsToAnalyze) :
            OsvOutcome(i) \in {"throw", "non2xx"} =>
                MapGet(osvVulnMap, DepKey(depsToAnalyze[i])) = Some(<<>>)

\* C22: with a permissive project license (MIT, BSD, APACHE) and a dependency
\* license containing AGPL, the one license issue is a warning whose message
\* gives the AGPL reason: "<license> requires network use to trigger
\* copyleft, conflicts with <project license>".
C22_AgplReason ==
    Returned =>
        \A i \in 1..Len(Results) :
            (MetaFetched(i) /\ ProjectPermissive /\ LicenseHas(i, AGPL)) =>
                /\ LicenseLevelsAre(i, <<"warning">>)
                /\ LicenseIssuesOf(i)[1].msg =
                      Str(Results[i].license)
                          \o " requires network use to trigger copyleft, conflicts with "
                          \o Str(projectLicense[1])

(***************************************************************************)
(* The handler on a list longer than one window of either lookup phase and *)
(* than one OSV sub-batch, with every request followed while it is in      *)
(* flight: the workers of processWithConcurrency as in the fine-grained    *)
(* specification, and the request of each OSV sub-batch (lines 67-79) from *)
(* the moment it is sent to the moment it is answered or fails.            *)
(***************************************************************************)
PhaseDeps == 13

\* Distinct packages, alone or followed by a second version of the first.
PhaseInputs ==
    {Fillers(PhaseDeps),
     Append(Fillers(PhaseDeps), [Filler(1) EXCEPT !.version = "1.2.5"])}

\* The nominal answers, a failed dist-tags lookup, or a failed sub-batch.
PhaseWorlds ==
    {NoFaults,
     [NoFaults EXCEPT !.dist = (Filler(2).name :> "throw")],
     [NoFaults EXCEPT !.osv = (1 :> "throw")],
     [NoFaults EXCEPT !.osv = (2 :> "non2xx")]}

InitPhases ==
    /\ deps \in PhaseInputs
    /\ projectLicense = None
    /\ world \in PhaseWorlds
    /\ HandlerStart

\* Lines 54-79: the loop takes the next sub-batch, arms the timer and sends
\* the request; the handler awaits it.
OsvRequest ==
    /\ pc = "osv"
    /\ OsvLoopContinues(osv.i, Len(depsToAnalyze))
    /\ call = NoCall
    /\ call' = [NewCall("osv") EXCEPT !.pc = "fetching", !.timer = "armed"]
    /\ UNCHANGED <<hook, sizeFetch, ui, reordered, deps, projectLicense, world, pc, depsToAnalyze, isLimited, sched,
                   distTagsMap, versionInfoMap, osv, osvVulnMap, vulnSource, thrownAt,
                   report>>

\* Lines 79-106: the awaited request is answered or fails, the results of the
\* sub-batch are stored, and the loop moves on.
OsvAnswered ==
    /\ pc = "osv"
    /\ CallPending
    /\ LET batch == Slice(depsToAnalyze, osv.i, BATCH_SIZE)
           outcome == OutcomeOf(world.osv, osv.i \div BATCH_SIZE + 1)
       IN  osv' = [i |-> osv.i + BATCH_SIZE,
                   results |-> OsvSubBatchResults(osv.results, batch, outcome)]
    /\ call' = NoCall
    /\ UNCHANGED <<hook, sizeFetch, ui, reordered, deps, projectLicense, world, pc, depsToAnalyze, isLimited, sched,
                   distTagsMap, versionInfoMap, osvVulnMap, vulnSource, thrownAt,
                   report>>

NextPhases ==
    \/ Dedupe
    \/ StartWindow
    \/ WorkerSettles
    \/ CloseWindow
    \/ DistTagsDone
    \/ VersionInfoDone
    \/ OsvRequest
    \/ OsvAnswered
    \/ OsvReturn
    \/ ResultLoopAndReturn

SpecPhases == InitPhases /\ [][NextPhases]_vars

\* The requests in flight: those of the workers of the running
\* processWithConcurrency call, by kind, and that of the OSV sub-batch.
InFlightOf(kind) ==
    IF sched.kind = kind THEN Cardinality(InFlight(sched.calls)) ELSE 0

OsvInFlight == IF call.kind = "osv" /\ CallPending THEN 1 ELSE 0

\* C23: at every moment of the invocation at most 8 dist-tags requests, at
\* most 6 version-metadata requests and at most 1 OSV request are in flight,
\* requests of two different phases are never in flight together, and so the
\* total is at most 8 whatever the length of the input.
C23_InFlightBounded ==
    /\ InFlightOf("distTags") <= 8
    /\ InFlightOf("versionInfo") <= 6
    /\ OsvInFlight <= 1
    /\ Cardinality({kind \in {"distTags", "versionInfo"} : InFlightOf(kind) > 0})
           + OsvInFlight <= 1
    /\ InFlightOf("distTags") + InFlightOf("versionInfo") + OsvInFlight <= 8
    /\ InFlightOf("distTags") > 0 => pc = "distTags"
    /\ InFlightOf("versionInfo") > 0 => pc = "versionInfo"
    /\ OsvInFlight > 0 => pc = "osv"

\* The second OSV sub-batch is in flight, after lookup phases of more than
\* one window each.
C23_SecondSubBatchInFlight ==
    /\ OsvInFlight = 1
    /\ osv.i = BATCH_SIZE
    /\ Len(depsToAnalyze) > DistTagsConcurrency
    /\ Cardinality(DOMAIN versionInfoMap) > 2 * VersionInfoConcurrency

\* The sub-batch of the analysed dependency at index i, its position in it,
\* and the answer to that sub-batch's request.
SubBatchOf(i) == Slice(depsToAnalyze, ((i - 1) \div BATCH_SIZE) * BATCH_SIZE, BATCH_SIZE)

PositionOf(i) == ((i - 1) % BATCH_SIZE) + 1

\* C24: after the query, for every package of a sub-batch that was answered
\* 2xx, the list recorded under its key is the `vulns` of the response entry
\* at the package's position in its sub-batch (empty when `vulns` is absent);
\* the map has keys of queried packages only, and a non-empty list recorded
\* for a package is made of that package's own advisories.
C24_PositionalAttribution ==
    OsvQueried =>
        /\ \A i \in 1..Len(depsToAnalyze) :
              OsvOutcome(i) \notin {"throw", "non2xx"} =>
                  LET response == OsvResponse(SubBatchOf(i), OsvOutcome(i))
                      p == PositionOf(i)
                  IN  p <= Len(response) =>
                          MapGet(osvVulnMap, DepKey(depsToAnalyze[i])) =
                              Some(IF IsSome(response[p].vulns)
                                   THEN response[p].vulns[1] ELSE <<>>)
        /\ DOMAIN osvVulnMap \subseteq {DepKey(depsToAnalyze[i]) : i \in 1..Len(depsToAnalyze)}
        /\ \A i \in 1..Len(depsToAnalyze) :
              LET d == depsToAnalyze[i]
              IN  (DepKey(d) \in DOMAIN osvVulnMap /\ osvVulnMap[DepKey(d)] # <<>>) =>
                      osvVulnMap[DepKey(d)] = OsvDb(d.name, d.version)

\* The first sub-batch was answered with one entry too many, and the first
\* package of the second sub-batch has advisories while the packages of the
\* first have none.
C24_SecondSubBatchAttributed ==
    /\ OsvQueried
    /\ Len(depsToAnalyze) > BATCH_SIZE
    /\ OutcomeOf(world.osv, 1) = "long"
    /\ \A i \in 1..BATCH_SIZE : MapGet(osvVulnMap, DepKey(depsToAnalyze[i])) = Some(<<>>)
    /\ MapGet(osvVulnMap, DepKey(depsToAnalyze[BATCH_SIZE + 1])) =
           Some(OsvDb(Minimist, "1.2.5"))

\* The result loop reached the fallback branch (lines 455-468) for some
\* dependency: the result map of the query was empty.
FallbackConsulted ==
    /\ UseFallback(osvVulnMap)
    /\ \E i \in 1..Len(depsToAnalyze) : MetaFetched(i)

\* C25: the returned vulnSource is "fallback" whenever the fallback table was
\* consulted for the vuln issues, and it is "osv" only when every vuln issue
\* of the report was made from an advisory of the OSV result map.
C25_VulnSourceTracksData ==
    Returned =>
        /\ FallbackConsulted => report[1].vulnSource = "fallback"
        /\ report[1].vulnSource = "osv" =>
              \A i \in 1..Len(Results) :
                  \A k \in 1..Len(VulnIssuesOf(i)) :
                      /\ k <= Len(OsvVulnsOf(depsToAnalyze[i], osvVulnMap))
                      /\ VulnIssuesOf(i)[k] =
                            osvToIssue(OsvVulnsOf(depsToAnalyze[i], osvVulnMap)[k],
                                       depsToAnalyze[i].name)

(***************************************************************************)
(* The package sizes (npmRegistry.ts): fetchPackageSizes runs that may     *)
(* overlap, each making one fetchPackageSize call per result, around the   *)
(* module's sizeCache.  A call is followed from its staggering delay       *)
(* (line 128) through the cache lookup (lines 27-30) and the registry      *)
(* request (line 35) to the moment it stores and returns its result.       *)
(***************************************************************************)
MaxSizeRuns == 2

MaxClears == 1

\* A Result of the analysis, as far as the size fetch reads it.
SizeResult(name, version) ==
    [name |-> name, version |-> version, requested |-> None, latest |-> None,
     license |-> UNKNOWN, issues |-> <<>>, size |-> None]

SizeRunInputs ==
    {<<SizeResult(Minimist, "1.2.5")>>,
     <<SizeResult(Minimist, "1.2.5"), SizeResult(Reactt, "1.2.5")>>,
     <<SizeResult(Reactt, "1.2.5"), SizeResult(Minimist, "1.2.5")>>}

\* What fetchPackageSize can store and return (lines 66-87): a size, or the
\* error result with size 0.
SizeInfos ==
    {[size |-> size, error |-> FALSE] : size \in PackageSizes}
        \cup {[size |-> 0, error |-> TRUE]}

\* fetchPackageSizes is called (lines 124-130): results.map starts one call
\* per result, each waiting for its delay.
FetchPackageSizesCalled ==
    /\ Len(sizeFetch.runs) < MaxSizeRuns
    /\ \E results \in SizeRunInputs :
          sizeFetch' = [sizeFetch EXCEPT !.runs =
              Append(@, [results |-> results,
                         calls |-> [k \in 1..Len(results) |->
                                       [pc |-> "delay", value |-> None]],
                         out |-> None])]
    /\ UNCHANGED <<hook, ui, reordered, call, deps, projectLicense, world, pc, depsToAnalyze,
                   isLimited, sched, distTagsMap, versionInfoMap, osv, osvVulnMap,
                   vulnSource, thrownAt, report>>

\* fetchPackageSize up to its first await (lines 24-35): a cached result is
\* returned, otherwise the registry request is sent.
FetchPackageSizeLooksUp ==
    /\ \E r \in 1..Len(sizeFetch.runs) : \E k \in 1..Len(sizeFetch.runs[r].calls) :
          /\ sizeFetch.runs[r].calls[k].pc = "delay"
          /\ LET cacheKey == DepKey(sizeFetch.runs[r].results[k])
                 cached == MapGet(sizeFetch.cache, cacheKey)
                 sent == MapGet(sizeFetch.requests, cacheKey)
             IN  IF IsSome(cached)
                 THEN sizeFetch' = [sizeFetch EXCEPT
                         !.runs[r].calls[k] = [pc |-> "done", value |-> cached]]
                 ELSE sizeFetch' = [sizeFetch EXCEPT
                         !.runs[r].calls[k] = [pc |-> "fetching", value |-> None],
                         !.requests = MapSet(@, cacheKey,
                                             IF IsSome(sent) THEN sent[1] + 1 ELSE 1)]
    /\ UNCHANGED <<hook, ui, reordered, call, deps, projectLicense, world, pc, depsToAnalyze,
                   isLimited, sched, distTagsMap, versionInfoMap, osv, osvVulnMap,
                   vulnSource, thrownAt, report>>

\* The awaited request is answered or fails (lines 35-87): the result or the
\* error result is stored under the key and returned.
FetchPackageSizeSettles ==
    /\ \E r \in 1..Len(sizeFetch.runs) : \E k \in 1..Len(sizeFetch.runs[r].calls) :
          /\ sizeFetch.runs[r].calls[k].pc = "fetching"
          /\ \E info \in SizeInfos :
                sizeFetch' = [sizeFetch EXCEPT
                    !.cache = MapSet(@, DepKey(sizeFetch.runs[r].results[k]), info),
                    !.runs[r].calls[k] = [pc |-> "done", value |-> Some(info)]]
    /\ UNCHANGED <<hook, ui, reordered, call, deps, projectLicense, world, pc, depsToAnalyze,
                   isLimited, sched, distTagsMap, versionInfoMap, osv, osvVulnMap,
                   vulnSource, thrownAt, report>>

\* Lines 132-141: every call of the run has returned; the sizes are merged
\* into the results and the results sorted.
FetchPackageSizesReturns ==
    /\ \E r \in 1..Len(sizeFetch.runs) :
          /\ sizeFetch.runs[r].out = None
          /\ \A k \in 1..Len(sizeFetch.runs[r].calls) : sizeFetch.runs[r].calls[k].pc = "done"
          /\ sizeFetch' = [sizeFetch EXCEPT !.runs[r].out =
                Some(fetchPackageSizes(sizeFetch.runs[r].results,
                        [k \in 1..Len(sizeFetch.runs[r].calls) |->
                            sizeFetch.runs[r].calls[k].value[1].size]))]
    /\ UNCHANGED <<hook, ui, reordered, call, deps, projectLicense, world, pc, depsToAnalyze,
                   isLimited, sched, distTagsMap, versionInfoMap, osv, osvVulnMap,
                   vulnSource, thrownAt, report>>

\* clearSizeCache (lines 209-211).
clearSizeCache ==
    /\ sizeFetch.clears < MaxClears
    /\ sizeFetch' = [sizeFetch EXCEPT !.cache = EmptyMap, !.requests = EmptyMap,
                                      !.clears = @ + 1]
    /\ UNCHANGED <<hook, ui, reordered, call, deps, projectLicense, world, pc, depsToAnalyze,
                   isLimited, sched, distTagsMap, versionInfoMap, osv, osvVulnMap,
                   vulnSource, thrownAt, report>>

InitSizes ==
    /\ deps = <<>>
    /\ projectLicense = None
    /\ world = NoFaults
    /\ pc = "sizes"
    /\ sched = NoSched
    /\ call = NoCall
    /\ HandlerLocals

NextSizes ==
    \/ FetchPackageSizesCalled
    \/ FetchPackageSizeLooksUp
    \/ FetchPackageSizeSettles
    \/ FetchPackageSizesReturns
    \/ clearSizeCache

SpecSizes == InitSizes /\ [][NextSizes]_vars

\* C26: since the cache was last cleared, at most one registry metadata
\* request has been sent for each name@version key, however the calls of
\* overlapping fetchPackageSizes runs interleave.
C26_OneRequestPerKey ==
    \A cacheKey \in DOMAIN sizeFetch.requests : sizeFetch.requests[cacheKey] <= 1

\* An advisory applies to the analysed dependency at index i: the OSV result
\* map has advisories for it, or the map is empty (fallback in use) and an
\* entry of the fallback table matches its version.
AdvisoryApplies(i) ==
    \/ OsvVulnsOf(depsToAnalyze[i], osvVulnMap) # <<>>
    \/ UseFallback(osvVulnMap) /\ FallbackIssues(depsToAnalyze[i]) # <<>>

\* C27: in a returned report every dependency to which an advisory applies
\* has a vuln issue, whether or not its version-metadata lookup succeeded.
C27_VulnNeverHidden ==
    Returned =>
        \A i \in 1..Len(Results) : AdvisoryApplies(i) => VulnIssuesOf(i) # <<>>

\* C28: every update issue of a returned report suggests a version strictly
\* higher than the dependency's current version.
C28_UpdateNeverDowngrades ==
    Returned =>
        \A i \in 1..Len(Results) :
            UpdateIssuesOf(i) # <<>> =>
                /\ IsSome(Results[i].latest)
                /\ SemverLt(SemverVersions[Results[i].version],
                            SemverVersions[Results[i].latest[1]])

(***************************************************************************)
(* usePackageAnalyzer (part_002) under edits that overlap with running     *)
(* analyses.  The effect of lines 60-119 runs when the parsed input or the *)
(* grouping flag changes: its cleanup clears the pending timer and nothing *)
(* else.  A timer that has fired is a run: it awaits the analysis, then    *)
(* the sizes, and sets the state after each.  A report is told by the      *)
(* input it was made from, whether it carries sizes, and how it is grouped.*)
(***************************************************************************)
MaxEdits == 3

MaxInputs == 2

MaxFlips == 1

HookReport(input, sized, grouped) == [of |-> input, sized |-> sized, grouped |-> grouped]

\* Lines 60-66 and 118: the effect body for the parsed input `input`, after
\* the cleanup of the previous run of the effect.
HookEffect(h, input) ==
    IF input = 0
    THEN [h EXCEPT !.timer = None, !.report = None]
    ELSE [h EXCEPT !.timer = Some(input)]

\* Lines 122-133: the grouping effect shows the raw report under the flag.
HookRegroup(h) ==
    IF IsSome(h.rawReport)
    THEN [h EXCEPT !.report = Some(HookReport(h.rawReport[1].of, TRUE,
                                              h.groupSmallPackagesEnabled))]
    ELSE h

\* The user edits the text and the parsed input changes (lines 33-57).
HookEdit ==
    /\ hook.edits < MaxEdits
    /\ \E input \in 0..MaxInputs :
          /\ input # hook.input
          /\ hook' = HookEffect([hook EXCEPT !.input = input, !.edits = @ + 1], input)
    /\ UNCHANGED <<sizeFetch, ui, reordered, call, deps, projectLicense, world, pc,
                   depsToAnalyze, isLimited, sched, distTagsMap, versionInfoMap, osv,
                   osvVulnMap, vulnSource, thrownAt, report>>

\* The user flips the grouping flag: both effects depend on it and run, the
\* analysis effect first.
HookFlipGrouping ==
    /\ hook.toggles < MaxFlips
    /\ hook' = HookRegroup(HookEffect([hook EXCEPT !.groupSmallPackagesEnabled = ~@,
                                                   !.toggles = @ + 1],
                                      hook.input))
    /\ UNCHANGED <<sizeFetch, ui, reordered, call, deps, projectLicense, world, pc,
                   depsToAnalyze, isLimited, sched, distTagsMap, versionInfoMap, osv,
                   osvVulnMap, vulnSource, thrownAt, report>>

\* Lines 67-75: the debounce timer fires; the callback calls analyze with the
\* input the effect closed over.
HookTimerFires ==
    /\ IsSome(hook.timer)
    /\ hook' = [hook EXCEPT !.timer = None,
                            !.isAnalyzing = TRUE,
                            !.runs = Append(@, [input |-> hook.timer[1], pc |-> "analyzing"])]
    /\ UNCHANGED <<sizeFetch, ui, reordered, call, deps, projectLicense, world, pc,
                   depsToAnalyze, isLimited, sched, distTagsMap, versionInfoMap, osv,
                   osvVulnMap, vulnSource, thrownAt, report>>

\* Lines 72-84: the analysis of a run returns.
HookAnalysisReturns ==
    /\ \E r \in 1..Len(hook.runs) :
          /\ hook.runs[r].pc = "analyzing"
          /\ hook' = [hook EXCEPT !.runs[r].pc = "sizes",
                                  !.report = Some(HookReport(hook.runs[r].input, FALSE, FALSE)),
                                  !.isAnalyzing = FALSE,
                                  !.isFetchingSizes = TRUE]
    /\ UNCHANGED <<sizeFetch, ui, reordered, call, deps, projectLicense, world, pc,
                   depsToAnalyze, isLimited, sched, distTagsMap, versionInfoMap, osv,
                   osvVulnMap, vulnSource, thrownAt, report>>

\* Lines 108-115: the analysis of a run throws.
HookAnalysisFails ==
    /\ \E r \in 1..Len(hook.runs) :
          /\ hook.runs[r].pc = "analyzing"
          /\ hook' = [hook EXCEPT !.runs[r].pc = "over",
                                  !.report = None,
                                  !.isAnalyzing = FALSE,
                                  !.isFetchingSizes = FALSE]
    /\ UNCHANGED <<sizeFetch, ui, reordered, call, deps, projectLicense, world, pc,
                   depsToAnalyze, isLimited, sched, distTagsMap, versionInfoMap, osv,
                   osvVulnMap, vulnSource, thrownAt, report>>

\* Lines 84-115: the sizes of a run arrive; the raw report is stored, and the
\* grouping effect, which depends on it, shows it under the current flag.
HookSizesArrive ==
    /\ \E r \in 1..Len(hook.runs) :
          /\ hook.runs[r].pc = "sizes"
          /\ hook' = HookRegroup([hook EXCEPT
                        !.runs[r].pc = "over",
                        !.rawReport = Some(HookReport(hook.runs[r].input, TRUE, FALSE)),
                        !.isAnalyzing = FALSE,
                        !.isFetchingSizes = FALSE])
    /\ UNCHANGED <<sizeFetch, ui, reordered, call, deps, projectLicense, world, pc,
                   depsToAnalyze, isLimited, sched, distTagsMap, versionInfoMap, osv,
                   osvVulnMap, vulnSource, thrownAt, report>>

InitHook ==
    /\ deps = <<>>
    /\ projectLicense = None
    /\ world = NoFaults
    /\ pc = "hook"
    /\ sched = NoSched
    /\ call = NoCall
    /\ HandlerLocals

NextHook ==
    \/ HookEdit
    \/ HookFlipGrouping
    \/ HookTimerFires
    \/ HookAnalysisReturns
    \/ HookAnalysisFails
    \/ HookSizesArrive

SpecHook == InitHook /\ [][NextHook]_vars

\* No timer is pending and every run is over.
HookSettled ==
    /\ hook.timer = None
    /\ \A r \in 1..Len(hook.runs) : hook.runs[r].pc = "over"

\* C29: once all in-flight work has settled, no report is shown for an input
\* without dependencies and a shown report is that of the current input; and
\* isAnalyzing is false only when no analysis of the current input is running.
C29_ReportOfLatestInput ==
    /\ HookSettled =>
          /\ hook.input = 0 => hook.report = None
          /\ IsSome(hook.report) => hook.report[1].of = hook.input
    /\ ~hook.isAnalyzing =>
          \A r \in 1..Len(hook.runs) :
              ~(hook.runs[r].pc = "analyzing" /\ hook.runs[r].input = hook.input)

(***************************************************************************)
(* groupSmallPackages on its own (npmRegistry.ts, lines 147-195): any list *)
(* of results with or without sizes, grouped as the hook does after the    *)
(* sizes have arrived, and the grouped list grouped again.                 *)
(***************************************************************************)
MaxGroupItems == 3

GroupNames == <<Minimist, Reactt, Tar, AnsiRegex, NodeForge>>

\* An absent size, two sizes under the threshold whose sum is over it, one
\* further under it, and one over it.
GroupSizes == {None, Some(100 * 1024), Some(300 * 1024), Some(600 * 1024)}

\* The k-th result of a list: its license and issues vary with k.
GroupItem(k, size) ==
    [name |-> GroupNames[((k - 1) % Len(GroupNames)) + 1],
     version |-> "1.2.5",
     requested |-> None,
     latest |-> None,
     license |-> IF k % 2 = 0 THEN ISC ELSE MIT,
     issues |-> IF k % 2 = 0 THEN <<>>
                ELSE <<[level |-> "info", kind |-> "update",
                        msg |-> "minor update to 1.3.0", fix |-> None],
                       [level |-> "warning", kind |-> "deprecated",
                        msg |-> "Package deprecated", fix |-> None]>>,
     size |-> size]

GroupInputs ==
    UNION {{[k \in 1..n |-> GroupItem(k, f[k])] : f \in [1..n -> GroupSizes]} :
              n \in 0..MaxGroupItems}

InitGroup ==
    /\ deps = <<>>
    /\ projectLicense = None
    /\ world = NoFaults
    /\ pc = "group"
    /\ sched = NoSched
    /\ call = NoCall
    /\ depsToAnalyze = <<>>
    /\ isLimited = FALSE
    /\ distTagsMap = EmptyMap
    /\ versionInfoMap = EmptyMap
    /\ osv = [i |-> 0, results |-> EmptyMap]
    /\ osvVulnMap = EmptyMap
    /\ vulnSource = "fallback"
    /\ thrownAt = 0
    /\ report = None
    /\ reordered = FALSE
    /\ sizeFetch = NoSizes
    /\ hook = NoHook
    /\ \E results \in GroupInputs :
          ui = [NoUi EXCEPT !.rawReport = Some([results |-> results])]

\* part_002, lines 94-101: the results with sizes are grouped and shown.
GroupApplied ==
    /\ pc = "group"
    /\ ui.report = None
    /\ ui' = [ui EXCEPT !.report =
                Some([results |-> groupSmallPackages(ui.rawReport[1].results)])]
    /\ UNCHANGED <<hook, sizeFetch, reordered, call, deps, projectLicense, world, pc,
                   depsToAnalyze, isLimited, sched, distTagsMap, versionInfoMap, osv,
                   osvVulnMap, vulnSource, thrownAt, report>>

\* The shown list is grouped once more.
GroupReapplied ==
    /\ pc = "group"
    /\ IsSome(ui.report)
    /\ ui.toggles < MaxToggles
    /\ ui' = [ui EXCEPT !.report = Some([results |-> groupSmallPackages(@[1].results)]),
                        !.toggles = @ + 1]
    /\ UNCHANGED <<hook, sizeFetch, reordered, call, deps, projectLicense, world, pc,
                   depsToAnalyze, isLimited, sched, distTagsMap, versionInfoMap, osv,
                   osvVulnMap, vulnSource, thrownAt, report>>

NextGroup ==
    \/ GroupApplied
    \/ GroupReapplied

SpecGroup == InitGroup /\ [][NextGroup]_vars

RECURSIVE TotalSize(_)
TotalSize(results) ==
    IF results = <<>> THEN 0 ELSE SizeOrZero(Head(results)) + TotalSize(Tail(results))

\* C30: a grouped list has the total size of the list it was made from, holds
\* the packages of 500 KB and more of that list, unchanged and in their
\* order, and is left as it is by grouping it again.
C30_GroupingConservesAndIsIdempotent ==
    IsSome(ui.report) =>
        LET input == ui.rawReport[1].results
            output == ui.report[1].results
            large == SelectSeq(input, LAMBDA r : SizeOrZero(r) >= 500 * 1024)
        IN  /\ TotalSize(output) = TotalSize(input)
            /\ SelectSeq(output, LAMBDA r : r \in Range(large)) = large
            /\ groupSmallPackages(output) = output

\* A list of one large and two small packages whose sizes add up to more than
\* the threshold has been grouped, and the grouped list grouped again.
C30_GroupedTwice ==
    /\ pc = "group"
    /\ IsSome(ui.report)
    /\ ui.toggles >= 1
    /\ Len(ui.rawReport[1].results) = 3
    /\ Len(ui.report[1].results) = 2
    /\ SizeOrZero(ui.report[1].results[1]) = 600 * 1024
    /\ SizeOrZero(ui.report[1].results[2]) = 600 * 1024
    /\ ui.report[1].results[2].version = "mixed"

====
